---- MODULE Spec2Model ----
(***************************************************************************)
(* Model of the authorization core of v-common: the ACL index codec        *)
(* (src/az_impl/formats.rs), the storage adapters and authorization        *)
(* contexts (v-authorization-impl/src, src/az_impl/az_lmdb.rs) and the     *)
(* traversal engine they call.                                             *)
(*                                                                         *)
(* Text is modelled as a sequence of one-character strings, so that the    *)
(* codec is computed character by character as the source computes it.     *)
(***************************************************************************)
EXTENDS Integers, Sequences, FiniteSets, TLC

(***************************************************************************)
(* Bounds of the model.                                                    *)
(***************************************************************************)
\* largest per-tag counter drawn for an input record of the codec
MaxCount == 2
\* number of I/O faults the environment may inject during one run
MaxFaults == 2
\* number of authorize calls made on one context
MaxCalls == 2
\* largest max_authorize_counter a context is constructed with
MaxCounter == 2
\* the add calls of a run of update_counters
MaxAdds == 3

(***************************************************************************)
(* Option values and characters.                                           *)
(***************************************************************************)
None == "None"
\* the None of an Option whose Some is a number
NoNum == 0 - 1
\* `0 as char`, the marker of a record that carries none
NUL == "NUL"
M_IS_EXCLUSIVE == "X"
M_IGNORE_EXCLUSIVE == "N"
ACCESS_8_FULL_LIST == <<1, 2, 4, 8, 16, 32, 64, 128>>
ACCESS_C_FULL_LIST == <<"M", "R", "U", "P", "m", "r", "u", "p">>

DecDigits == <<"0", "1", "2", "3", "4", "5", "6", "7", "8", "9">>
HexUpper == <<"0", "1", "2", "3", "4", "5", "6", "7", "8", "9", "A", "B", "C", "D", "E", "F">>
HexLower == <<"0", "1", "2", "3", "4", "5", "6", "7", "8", "9", "a", "b", "c", "d", "e", "f">>

Range(s) == {s[i] : i \in 1..Len(s)}
IndexOf(s, c) == CHOOSE i \in 1..Len(s) : s[i] = c
IsDecDigit(c) == c \in Range(DecDigits)
DecVal(c) == IndexOf(DecDigits, c) - 1

\* char::to_digit(16): the value of a hexadecimal digit of either case, or NoNum
to_digit16(c) ==
    IF c \in Range(HexUpper) THEN IndexOf(HexUpper, c) - 1
    ELSE IF c \in Range(HexLower) THEN IndexOf(HexLower, c) - 1
    ELSE NoNum

(***************************************************************************)
(* u8 bit operations.                                                      *)
(***************************************************************************)
HasBit(a, b) == (a \div b) % 2 = 1
BitAnd(a, b) ==
    LET f(x) == IF HasBit(a, x) /\ HasBit(b, x) THEN x ELSE 0
    IN f(1) + f(2) + f(4) + f(8) + f(16) + f(32) + f(64) + f(128)
BitOr(a, b) ==
    LET f(x) == IF HasBit(a, x) \/ HasBit(b, x) THEN x ELSE 0
    IN f(1) + f(2) + f(4) + f(8) + f(16) + f(32) + f(64) + f(128)
\* a & !b on u8
BitClear(a, b) ==
    LET f(x) == IF HasBit(a, x) /\ ~HasBit(b, x) THEN x ELSE 0
    IN f(1) + f(2) + f(4) + f(8) + f(16) + f(32) + f(64) + f(128)

(***************************************************************************)
(* formats.rs: the characters of the access tags.                          *)
(***************************************************************************)
access8_from_char(c) ==
    IF c \in Range(ACCESS_C_FULL_LIST)
    THEN ACCESS_8_FULL_LIST[IndexOf(ACCESS_C_FULL_LIST, c)]
    ELSE NoNum

\* the Access enum is cast with `as u8`: the same bit as access8_from_char
access_from_char(c) == access8_from_char(c)

access8_to_char(a) ==
    IF a \in Range(ACCESS_8_FULL_LIST)
    THEN ACCESS_C_FULL_LIST[IndexOf(ACCESS_8_FULL_LIST, a)]
    ELSE None

(***************************************************************************)
(* ACLRecord and ACLRecordSet.  A counter map is a function from tag       *)
(* characters to u16; a record set is a function from ids to records.      *)
(***************************************************************************)
EmptyMap == [x \in {} |-> 0]
MapPut(m, k, v) == [x \in DOMAIN m \cup {k} |-> IF x = k THEN v ELSE m[x]]

ACLRecord_new_with_access(id, access) ==
    [id |-> id, access |-> access, marker |-> NUL, is_deleted |-> FALSE,
     counters |-> EmptyMap]

ACLRecord_new(id) == ACLRecord_new_with_access(id, 15)

(***************************************************************************)
(* Number formatting and parsing.                                          *)
(***************************************************************************)
\* format!("{:X}", u8): upper-case hexadecimal without leading zero
FormatHexUpper(a) ==
    IF a < 16 THEN <<HexUpper[a + 1]>>
    ELSE <<HexUpper[(a \div 16) + 1], HexUpper[(a % 16) + 1]>>

\* u16::to_string
RECURSIVE ToDecString(_)
ToDecString(n) ==
    IF n < 10 THEN <<DecDigits[n + 1]>>
    ELSE ToDecString(n \div 10) \o <<DecDigits[(n % 10) + 1]>>

RECURSIVE DecValue(_, _)
\* value of a string of decimal digits; the accumulation stops once the
\* value has passed u16::MAX, which is all that parse::<u16> tells
DecValue(s, acc) ==
    IF s = <<>> THEN acc
    ELSE IF acc > 65535 THEN acc
    ELSE DecValue(Tail(s), acc * 10 + DecVal(Head(s)))

\* str::parse::<u16>(): optional '+', then one or more digits, at most 65535
ParseU16(s) ==
    LET body == IF s # <<>> /\ Head(s) = "+" THEN Tail(s) ELSE s
    IN IF body = <<>> \/ \E i \in 1..Len(body) : ~IsDecDigit(body[i]) THEN NoNum
       ELSE IF DecValue(body, 0) > 65535 THEN NoNum
       ELSE DecValue(body, 0)

\* variant: val.parse::<u16>().unwrap_or(0)
ParseCounter_or_zero(s) ==
    LET unwrap_or(n) == IF n = NoNum THEN 0 ELSE n
    IN unwrap_or(ParseU16(s))

\* val.parse::<u16>().unwrap_or(1)
ParseCounter(s) ==
    LET unwrap_or(n) == IF n = NoNum THEN 1 ELSE n
    IN unwrap_or(ParseU16(s))

(***************************************************************************)
(* chrono: dates.  An Option<DateTime<Utc>> is <<>> or <<[y, m, d]>>, the  *)
(* civil date whose midnight the DateTime is.                              *)
(***************************************************************************)
IsLeapYear(y) == (y % 4 = 0 /\ y % 100 # 0) \/ y % 400 = 0

DaysInMonth(y, m) ==
    IF m = 2 THEN (IF IsLeapYear(y) THEN 29 ELSE 28)
    ELSE IF m \in {4, 6, 9, 11} THEN 30 ELSE 31

RECURSIVE DaysBeforeMonth(_, _)
DaysBeforeMonth(y, m) ==
    IF m = 1 THEN 0 ELSE DaysBeforeMonth(y, m - 1) + DaysInMonth(y, m - 1)

\* days from 0001-01-01 to the date (proleptic Gregorian)
DayNumber(date) ==
    LET p == date.y - 1
    IN 365 * p + (p \div 4) - (p \div 100) + (p \div 400)
       + DaysBeforeMonth(date.y, date.m) + (date.d - 1)

\* NaiveDate::parse_from_str(s, "%y%m%d") for a field of six characters;
\* %y without a century is 19yy from 70 on and 20yy below
ParseDate(s) ==
    IF Len(s) # 6 \/ \E i \in 1..6 : ~IsDecDigit(s[i]) THEN <<>>
    ELSE LET yy == DecVal(s[1]) * 10 + DecVal(s[2])
             y == IF yy < 70 THEN 2000 + yy ELSE 1900 + yy
             m == DecVal(s[3]) * 10 + DecVal(s[4])
             d == DecVal(s[5]) * 10 + DecVal(s[6])
         IN IF m \in 1..12 /\ d \in 1..DaysInMonth(y, m)
            THEN <<[y |-> y, m |-> m, d |-> d]>> ELSE <<>>

TwoDigits(n) == <<DecDigits[(n \div 10) + 1], DecDigits[(n % 10) + 1]>>

\* d.format("T%y%m%d")
FormatDate(date) ==
    <<"T">> \o TwoDigits(date.y % 100) \o TwoDigits(date.m) \o TwoDigits(date.d)

(***************************************************************************)
(* str helpers.                                                            *)
(***************************************************************************)
\* position of the first c in s, 0 when there is none
FirstIndex(s, c) ==
    IF c \in Range(s) THEN CHOOSE i \in 1..Len(s) : s[i] = c /\ \A j \in 1..(i - 1) : s[j] # c
    ELSE 0

RECURSIVE Split(_, _)
\* str::split(c): the pieces between the separators, empty ones included
Split(s, c) ==
    LET i == FirstIndex(s, c)
    IN IF i = 0 THEN <<s>>
       ELSE <<SubSeq(s, 1, i - 1)>> \o Split(SubSeq(s, i + 1, Len(s)), c)

(***************************************************************************)
(* formats.rs: encoding.  A HashMap is iterated in an order the program    *)
(* does not fix: the order is an input (a sequence naming the keys).       *)
(***************************************************************************)
encode_value_v1(right) ==
    FormatHexUpper(right.access)
    \o (IF right.marker = M_IS_EXCLUSIVE \/ right.marker = M_IGNORE_EXCLUSIVE
        THEN <<right.marker>> ELSE <<>>)

RECURSIVE EncodeCounters(_, _)
\* the loop over right.counters: [out, set_access] after the tags of `order`
EncodeCounters(right, order) ==
    IF order = <<>> THEN [out |-> <<>>, set_access |-> 0]
    ELSE LET tag == Head(order)
             count == right.counters[tag]
             rest == EncodeCounters(right, Tail(order))
         IN IF access_from_char(tag) # NoNum /\ count > 0
            THEN [out |-> <<tag>> \o (IF count > 1 THEN ToDecString(count) ELSE <<>>)
                          \o rest.out,
                  set_access |-> BitOr(access_from_char(tag), rest.set_access)]
            ELSE rest

RECURSIVE EncodeRestBits(_, _, _)
\* the loop over ACCESS_8_FULL_LIST: the bits of access no counter has emitted
EncodeRestBits(right, set_access, i) ==
    IF i > Len(ACCESS_8_FULL_LIST) THEN <<>>
    ELSE LET a == ACCESS_8_FULL_LIST[i]
         IN (IF BitAnd(BitAnd(a, right.access), set_access) = 0
                /\ access8_to_char(BitAnd(a, right.access)) # None
             THEN <<access8_to_char(BitAnd(a, right.access))>> ELSE <<>>)
            \o EncodeRestBits(right, set_access, i + 1)

encode_value_v2(right, tag_order) ==
    LET cs == EncodeCounters(right, tag_order)
    IN cs.out \o EncodeRestBits(right, cs.set_access, 1)
       \o (IF right.marker = M_IS_EXCLUSIVE \/ right.marker = M_IGNORE_EXCLUSIVE
           THEN <<right.marker>> ELSE <<>>)

RECURSIVE SeqOfSet(_)
SeqOfSet(S) ==
    IF S = {} THEN <<>>
    ELSE LET x == CHOOSE x \in S : TRUE IN <<x>> \o SeqOfSet(S \ {x})

\* the iteration order of a record's counters: ACCESS_C_FULL_LIST order or its
\* reverse, with the keys that are no access tag last

SelectTags(counters, reversed) ==
    LET n == Len(ACCESS_C_FULL_LIST)
        lst == [i \in 1..n |-> IF reversed THEN ACCESS_C_FULL_LIST[n + 1 - i]
                                ELSE ACCESS_C_FULL_LIST[i]]
    IN SelectSeq(lst, LAMBDA t : t \in DOMAIN counters)
       \o SeqOfSet(DOMAIN counters \ Range(ACCESS_C_FULL_LIST))

RECURSIVE EncodeRights_emits_deleted(_, _, _, _)
\* variant: the loop without the test of is_deleted
EncodeRights_emits_deleted(new_rights, key_order, version, reversed) ==
    IF key_order = <<>> THEN [out |-> <<>>, count |-> 0]
    ELSE LET right == new_rights[Head(key_order)]
             rest == EncodeRights_emits_deleted(new_rights, Tail(key_order), version,
                                                reversed)
         IN [out |-> right.id \o <<";">>
                     \o (IF version = 1 THEN encode_value_v1(right)
                         ELSE encode_value_v2(right, SelectTags(right.counters, reversed)))
                     \o <<";">> \o rest.out,
             count |-> rest.count + 1]

RECURSIVE EncodeRights(_, _, _, _)
\* the loop over new_rights.keys(): [out, count]
EncodeRights(new_rights, key_order, version, reversed) ==
    IF key_order = <<>> THEN [out |-> <<>>, count |-> 0]
    ELSE LET right == new_rights[Head(key_order)]
             rest == EncodeRights(new_rights, Tail(key_order), version, reversed)
         IN IF ~right.is_deleted
            THEN [out |-> right.id \o <<";">>
                          \o (IF version = 1 THEN encode_value_v1(right)
                              ELSE encode_value_v2(right, SelectTags(right.counters, reversed)))
                          \o <<";">> \o rest.out,
                  count |-> rest.count + 1]
            ELSE rest

encode_record(date, new_rights, key_order, version, reversed) ==
    LET body == EncodeRights(new_rights, key_order, version, reversed)
    IN (IF date # <<>> THEN FormatDate(date[1]) \o <<",">> ELSE <<>>)
       \o body.out
       \o (IF body.count = 0 THEN <<"X">> ELSE <<>>)

(***************************************************************************)
(* formats.rs: decoding.                                                   *)
(***************************************************************************)
IsTagOrMarker(c) ==
    c \in Range(ACCESS_C_FULL_LIST) \/ c = M_IS_EXCLUSIVE \/ c = M_IGNORE_EXCLUSIVE

RECURSIVE DecodeV2Loop(_, _, _, _)
\* the loop of decode_value_v2 over value.chars(); st = [access, marker,
\* counters, tag, val], tag being "" while no tag has been read
DecodeV2Loop(value, i, with_count, st) ==
    IF i > Len(value) THEN st
    ELSE LET c == value[i]
         IN IF IsTagOrMarker(c)
            THEN DecodeV2Loop(value, i + 1, with_count,
                    [access |-> IF c = M_IS_EXCLUSIVE \/ c = M_IGNORE_EXCLUSIVE
                                THEN st.access
                                ELSE BitOr(st.access, access_from_char(c)),
                     marker |-> IF c = M_IS_EXCLUSIVE \/ c = M_IGNORE_EXCLUSIVE
                                THEN c ELSE st.marker,
                     counters |-> IF with_count /\ st.tag # ""
                                  THEN MapPut(st.counters, st.tag, ParseCounter(st.val))
                                  ELSE st.counters,
                     tag |-> c,
                     val |-> <<>>])
            ELSE DecodeV2Loop(value, i + 1, with_count,
                    [st EXCEPT !.val = Append(st.val, c)])

decode_value_v2(value, rr, with_count) ==
    LET after(st) ==
            [rr EXCEPT !.access = st.access,
                       !.marker = st.marker,
                       !.counters = IF with_count /\ st.tag # ""
                                    THEN MapPut(st.counters, st.tag, ParseCounter(st.val))
                                    ELSE st.counters]
    IN after(DecodeV2Loop(value, 1, with_count,
                 [access |-> 0, marker |-> rr.marker, counters |-> rr.counters,
                  tag |-> "", val |-> <<>>]))

\* (v << shift) as seen in the low byte that `access as u8` keeps; shift stays
\* below 32 for the values of the model (fewer than eight hex digits)
ShiftedLowByte(v, shift) ==
    IF shift = 0 THEN v ELSE IF shift = 4 THEN v * 16 ELSE 0

RECURSIVE DecodeV1Loop_shifts_on_skip(_, _, _)
\* variant: a character that is no hex digit takes a nibble position
DecodeV1Loop_shifts_on_skip(value, i, st) ==
    IF i > Len(value) THEN st
    ELSE LET c == value[i]
         IN IF c = M_IS_EXCLUSIVE \/ c = M_IGNORE_EXCLUSIVE
            THEN DecodeV1Loop_shifts_on_skip(value, i + 1, [st EXCEPT !.marker = c])
            ELSE IF to_digit16(c) # NoNum
            THEN DecodeV1Loop_shifts_on_skip(value, i + 1,
                    [st EXCEPT !.access = BitOr(st.access, ShiftedLowByte(to_digit16(c), st.shift)),
                               !.shift = st.shift + 4])
            ELSE DecodeV1Loop_shifts_on_skip(value, i + 1, [st EXCEPT !.shift = st.shift + 4])

RECURSIVE DecodeV1Loop(_, _, _)
\* the loop of decode_value_v1; st = [access, marker, shift]
DecodeV1Loop(value, i, st) ==
    IF i > Len(value) THEN st
    ELSE LET c == value[i]
         IN IF c = M_IS_EXCLUSIVE \/ c = M_IGNORE_EXCLUSIVE
            THEN DecodeV1Loop(value, i + 1, [st EXCEPT !.marker = c])
            ELSE IF to_digit16(c) # NoNum
            THEN DecodeV1Loop(value, i + 1,
                    [st EXCEPT !.access = BitOr(st.access, ShiftedLowByte(to_digit16(c), st.shift)),
                               !.shift = st.shift + 4])
            ELSE DecodeV1Loop(value, i + 1, st)

RECURSIVE V1Counters(_, _, _)
V1Counters(access, counters, i) ==
    IF i > Len(ACCESS_8_FULL_LIST) THEN counters
    ELSE V1Counters(access,
            IF BitAnd(ACCESS_8_FULL_LIST[i], access) > 0
            THEN MapPut(counters, access8_to_char(ACCESS_8_FULL_LIST[i]), 1)
            ELSE counters,
            i + 1)

decode_value_v1(value, rr, with_count) ==
    LET after(st) ==
            [rr EXCEPT !.access = st.access,
                       !.marker = st.marker,
                       !.counters = IF with_count THEN V1Counters(st.access, rr.counters, 1)
                                    ELSE rr.counters]
    IN after(DecodeV1Loop(value, 1, [access |-> 0, marker |-> NUL, shift |-> 0]))

\* variant: the date is parsed and stripped, but not returned
extract_date_drops_date(s) ==
    LET whole == [date |-> <<>>, rest |-> s]
        parsed(date, rest) == IF date = <<>> THEN whole ELSE [date |-> <<>>, rest |-> rest]
        found(date_str, i) ==
            IF i = 0 THEN whole
            ELSE parsed(ParseDate(SubSeq(date_str, 1, i - 1)),
                        SubSeq(date_str, i + 1, Len(date_str)))
    IN IF s = <<>> \/ Head(s) # "T" THEN whole
       ELSE found(Tail(s), FirstIndex(Tail(s), ","))

extract_date(s) ==
    LET whole == [date |-> <<>>, rest |-> s]
        parsed(date, rest) == IF date = <<>> THEN whole ELSE [date |-> date, rest |-> rest]
        found(date_str, i) ==
            IF i = 0 THEN whole
            ELSE parsed(ParseDate(SubSeq(date_str, 1, i - 1)),
                        SubSeq(date_str, i + 1, Len(date_str)))
    IN IF s = <<>> \/ Head(s) # "T" THEN whole
       ELSE found(Tail(s), FirstIndex(Tail(s), ","))

RECURSIVE DecodePairs_stops_at_empty(_, _, _)
\* variant: a pair with an empty value ends the loop
DecodePairs_stops_at_empty(tokens, idx, with_counter) ==
    IF idx + 1 > Len(tokens) THEN <<>>
    ELSE LET pair(key, value) ==
                 IF access_from_char(Head(value)) = NoNum
                 THEN <<decode_value_v1(value, ACLRecord_new(key), with_counter)>>
                 ELSE <<decode_value_v2(value, ACLRecord_new(key), with_counter)>>
         IN IF tokens[idx + 1] = <<>> THEN <<>>
            ELSE pair(tokens[idx], tokens[idx + 1])
                 \o DecodePairs_stops_at_empty(tokens, idx + 2, with_counter)

RECURSIVE DecodePairs(_, _, _)
\* the loop of decode_index_record over the tokens: the records handed to
\* drain, in order
DecodePairs(tokens, idx, with_counter) ==
    IF idx + 1 > Len(tokens) THEN <<>>
    ELSE LET pair(key, value) ==
                 IF value = <<>> THEN <<>>
                 ELSE IF access_from_char(Head(value)) = NoNum
                 THEN <<decode_value_v1(value, ACLRecord_new(key), with_counter)>>
                 ELSE <<decode_value_v2(value, ACLRecord_new(key), with_counter)>>
         IN pair(tokens[idx], tokens[idx + 1])
            \o DecodePairs(tokens, idx + 2, with_counter)

\* [ok, date, recs]: the returned pair and the records drained
decode_index_record(src, with_counter) ==
    LET decoded(ed) ==
            IF ed.rest = <<>> THEN [ok |-> FALSE, date |-> ed.date, recs |-> <<>>]
            ELSE [ok |-> TRUE, date |-> ed.date,
                  recs |-> DecodePairs(Split(ed.rest, ";"), 1, with_counter)]
    IN decoded(extract_date(src))

\* result.push(right) for each record
decode_rec_to_rights(src) == decode_index_record(src, FALSE)

RECURSIVE InsertAll(_, _)
InsertAll(set, recs) ==
    IF recs = <<>> THEN set
    ELSE InsertAll(MapPut(set, Head(recs).id, Head(recs)), Tail(recs))

\* new_rights.insert(key, right) for each record: [ok, date, set]
decode_rec_to_rightset(src, new_rights) ==
    LET inserted(r) == [ok |-> r.ok, date |-> r.date, set |-> InsertAll(new_rights, r.recs)]
    IN inserted(decode_index_record(src, TRUE))

\* variant: decode_filter without the shortcut for a text shorter than three
\* bytes
decode_filter_no_shortcut(filter_value) ==
    LET first_of(ed, filters_set) ==
            IF filters_set = <<>>
            THEN [rec |-> ACLRecord_new_with_access(ed.rest, 0), date |-> ed.date]
            ELSE [rec |-> ACLRecord_new_with_access(filters_set[1].id, filters_set[1].access),
                  date |-> ed.date]
        decoded(ed) == first_of(ed, decode_rec_to_rights(ed.rest).recs)
    IN decoded(extract_date(filter_value))

\* [rec, date]; the record is always Some
decode_filter(filter_value) ==
    LET first_of(ed, filters_set) ==
            IF filters_set = <<>>
            THEN [rec |-> ACLRecord_new_with_access(ed.rest, 0), date |-> ed.date]
            ELSE [rec |-> ACLRecord_new_with_access(filters_set[1].id, filters_set[1].access),
                  date |-> ed.date]
        decoded(ed) ==
            IF Len(ed.rest) < 3
            THEN [rec |-> ACLRecord_new_with_access(<<>>, 0), date |-> ed.date]
            ELSE first_of(ed, decode_rec_to_rights(ed.rest).recs)
    IN decoded(extract_date(filter_value))

(***************************************************************************)
(* formats.rs: update_counters.  The counters are u16: `*cc += 1` and      *)
(* `*cc -= 1` are taken modulo 2^16, as the release build computes them    *)
(* (the debug build panics where they wrap).  The result is [counters,     *)
(* out_access].                                                            *)
(***************************************************************************)
U16 == 65536

\* variant: a removal forgets the other grantors: the counter falls to 0
update_counters_tag_forgets(st, access_c, prev_access, is_deleted, is_drop_count) ==
    LET check_bit == access8_from_char(access_c)
        set == BitOr(st.out_access, check_bit)
        clear == BitClear(st.out_access, check_bit)
    IN IF access_c \in DOMAIN st.counters
       THEN IF BitAnd(st.out_access, check_bit) > 0
            THEN IF is_deleted
                 THEN [counters |-> MapPut(st.counters, access_c, 0), out_access |-> clear]
                 ELSE [counters |-> MapPut(st.counters, access_c,
                                           (st.counters[access_c] + 1) % U16),
                       out_access |-> set]
            ELSE st
       ELSE IF ~is_deleted /\ BitAnd(st.out_access, check_bit) > 0
            THEN [counters |-> MapPut(st.counters, access_c, 1), out_access |-> set]
            ELSE st

\* variant: drop_count is ignored, the counters are counted as without it
update_counters_tag_counts(st, access_c, prev_access, is_deleted, is_drop_count) ==
    LET check_bit == access8_from_char(access_c)
        set == BitOr(st.out_access, check_bit)
        clear == BitClear(st.out_access, check_bit)
        put(cc, out) == [counters |-> MapPut(st.counters, access_c, cc), out_access |-> out]
        decremented(cc) == put(cc, IF cc = 0 THEN clear ELSE st.out_access)
    IN IF access_c \in DOMAIN st.counters
       THEN IF BitAnd(st.out_access, check_bit) > 0
            THEN IF is_deleted
                 THEN (IF BitAnd(prev_access, check_bit) > 0
                       THEN decremented((st.counters[access_c] + U16 - 1) % U16)
                       ELSE st)
                 ELSE put((st.counters[access_c] + 1) % U16, set)
            ELSE st
       ELSE IF ~is_deleted /\ BitAnd(st.out_access, check_bit) > 0
            THEN put(1, set)
            ELSE st

\* the body of the loop of update_counters for one tag of ACCESS_C_FULL_LIST
update_counters_tag(st, access_c, prev_access, is_deleted, is_drop_count) ==
    LET check_bit == access8_from_char(access_c)
        set == BitOr(st.out_access, check_bit)
        clear == BitClear(st.out_access, check_bit)
        put(cc, out) == [counters |-> MapPut(st.counters, access_c, cc), out_access |-> out]
        decremented(cc) == put(cc, IF cc = 0 THEN clear ELSE st.out_access)
    IN IF access_c \in DOMAIN st.counters
       THEN IF BitAnd(st.out_access, check_bit) > 0
            THEN IF is_drop_count
                 THEN (IF is_deleted THEN put(0, clear) ELSE put(1, set))
                 ELSE IF is_deleted
                 THEN (IF BitAnd(prev_access, check_bit) > 0
                       THEN decremented((st.counters[access_c] + U16 - 1) % U16)
                       ELSE st)
                 ELSE put((st.counters[access_c] + 1) % U16, set)
            ELSE IF is_drop_count /\ st.counters[access_c] > 0
            THEN [st EXCEPT !.out_access = set]
            ELSE st
       ELSE IF ~is_deleted /\ BitAnd(st.out_access, check_bit) > 0
            THEN put(1, set)
            ELSE st

RECURSIVE UpdateCountersLoop(_, _, _, _, _)
\* `for access_c in ACCESS_C_FULL_LIST.iter()`
UpdateCountersLoop(st, i, prev_access, is_deleted, is_drop_count) ==
    IF i > Len(ACCESS_C_FULL_LIST) THEN st
    ELSE UpdateCountersLoop(
            update_counters_tag(st, ACCESS_C_FULL_LIST[i], prev_access, is_deleted,
                                is_drop_count),
            i + 1, prev_access, is_deleted, is_drop_count)

update_counters(counters, prev_access, cur_access, is_deleted, is_drop_count) ==
    UpdateCountersLoop([counters |-> counters, out_access |-> cur_access], 1,
                       prev_access, is_deleted, is_drop_count)

\* whether `*cc -= 1` or `*cc += 1` of a call without drop_count leaves the
\* range of u16: each tag sees its own bit of cur_access, which no other tag
\* of the loop changes
CounterOverflows(counters, prev_access, cur_access, is_deleted) ==
    \E access_c \in DOMAIN counters :
        /\ BitAnd(cur_access, access8_from_char(access_c)) > 0
        /\ IF is_deleted
           THEN BitAnd(prev_access, access8_from_char(access_c)) > 0 /\ counters[access_c] = 0
           ELSE counters[access_c] = U16 - 1

(***************************************************************************)
(* Storage adapters.  A database is a function from the keys it holds to   *)
(* their values; a lookup is made with a fault flag, the I/O failure the   *)
(* environment may inject.  An io::Result<Option<String>> is               *)
(* [kind: "some" | "none" | "err", val].                                   *)
(***************************************************************************)
OkSome(v) == [kind |-> "some", val |-> v]
OkNone == [kind |-> "none", val |-> <<>>]
IoErr == [kind |-> "err", val |-> <<>>]

\* db.get(txn, key): Ok(Some(val)), Ok(None), or Err
DbGet(db, key, fault) ==
    IF fault THEN IoErr
    ELSE IF key \in DOMAIN db THEN OkSome(db[key]) ELSE OkNone

\* variant: without a cache the message is the key alone
format_stat_message_bare(key, use_cache, from_cache) ==
    IF use_cache /\ from_cache THEN key \o <<"/", "C">>
    ELSE IF use_cache THEN key \o <<"/", "c", "B">>
    ELSE key

\* az_lmdb.rs message / stat_manager.rs format_stat_message
format_stat_message(key, use_cache, from_cache) ==
    IF use_cache /\ from_cache THEN key \o <<"/", "C">>
    ELSE IF use_cache THEN key \o <<"/", "c", "B">>
    ELSE key \o <<"/", "B">>

\* variant: the key is collected in the mode Minimal too
Collected_minimal(stat_mode, msg) ==
    IF stat_mode \in {"Full", "Minimal"} THEN <<msg>> ELSE <<>>

\* stat.point.collect(..) under `if stat.mode == StatMode::Full`; stat_mode is
\* "NoStat" when the context holds no Stat
Collected(stat_mode, msg) == IF stat_mode = "Full" THEN <<msg>> ELSE <<>>

\* lmdb_get with the cache arm `Err(_e) => {}` replaced by a return of the
\* error
lmdb_get_cache_err(cache_db, cache_txn, db, key, cache_fault, db_fault, stat_mode) ==
    LET c == IF cache_db # <<>> /\ cache_txn # <<>>
             THEN DbGet(cache_db[1], key, cache_fault) ELSE OkNone
        p == DbGet(db, key, db_fault)
    IN IF cache_db # <<>> /\ cache_txn # <<>> /\ c.kind # "none"
       THEN [res |-> c, msgs |-> <<>>, primary_read |-> FALSE]
       ELSE [res |-> p, msgs |-> <<>>, primary_read |-> TRUE]

\* AzLmdbStorage::get of v-authorization-impl (heed).  cache_db and cache_txn
\* are <<>> (None) or <<db>>.  Returns the result, the messages collected and
\* whether the primary database was read.
lmdb_get(cache_db, cache_txn, db, key, cache_fault, db_fault, stat_mode) ==
    LET c == IF cache_db # <<>> /\ cache_txn # <<>>
             THEN DbGet(cache_db[1], key, cache_fault) ELSE OkNone
        p == DbGet(db, key, db_fault)
    IN IF cache_db # <<>> /\ cache_txn # <<>> /\ c.kind = "some"
       THEN [res |-> OkSome(c.val),
             msgs |-> Collected(stat_mode, format_stat_message(key, TRUE, TRUE)),
             primary_read |-> FALSE]
       ELSE [res |-> p,
             msgs |-> IF p.kind = "some"
                      THEN Collected(stat_mode,
                               format_stat_message(key, cache_db # <<>>, FALSE))
                      ELSE <<>>,
             primary_read |-> TRUE]

\* variant: read_from_db collects a message for a key it did not find too
read_from_db_records_miss(cache_configured, db, key, from_cache, fault, stat_mode) ==
    LET r == DbGet(db, key, fault)
    IN [res |-> r,
        msgs |-> IF r.kind # "err"
                 THEN Collected(stat_mode,
                          format_stat_message(key, cache_configured, from_cache))
                 ELSE <<>>]

\* AzMdbxStorage::read_from_db: a transaction of its own for each read; a
\* failure to begin it, to open the table or to decode the value is the Err
read_from_db(cache_configured, db, key, from_cache, fault, stat_mode) ==
    LET r == DbGet(db, key, fault)
    IN [res |-> r,
        msgs |-> IF r.kind = "some"
                 THEN Collected(stat_mode,
                          format_stat_message(key, cache_configured, from_cache))
                 ELSE <<>>]

\* AzMdbxStorage::get
mdbx_get(cache_db, db, key, cache_fault, db_fault, stat_mode) ==
    LET c == IF cache_db # <<>>
             THEN read_from_db(TRUE, cache_db[1], key, TRUE, cache_fault, stat_mode)
             ELSE [res |-> OkNone, msgs |-> <<>>]
        p == read_from_db(cache_db # <<>>, db, key, FALSE, db_fault, stat_mode)
    IN IF cache_db # <<>> /\ c.res.kind = "some"
       THEN [res |-> c.res, msgs |-> c.msgs, primary_read |-> FALSE]
       ELSE [res |-> p.res, msgs |-> c.msgs \o p.msgs, primary_read |-> TRUE]

\* legacy_get without the arm `MdbError::NotFound => Ok(None)`
legacy_get_notfound_err(cache_db, db, key, cache_fault, db_fault, stat_mode) ==
    LET c == IF cache_db # <<>> THEN DbGet(cache_db[1], key, cache_fault) ELSE OkNone
        p == DbGet(db, key, db_fault)
    IN IF cache_db # <<>> /\ c.kind = "some"
       THEN [res |-> OkSome(c.val), msgs |-> <<>>, primary_read |-> FALSE]
       ELSE [res |-> IF p.kind = "none" THEN IoErr ELSE p, msgs |-> <<>>,
             primary_read |-> TRUE]

\* AzLmdbStorage::get of src/az_impl (lmdb_rs_m): NotFound is an MdbError
legacy_get(cache_db, db, key, cache_fault, db_fault, stat_mode) ==
    LET c == IF cache_db # <<>> THEN DbGet(cache_db[1], key, cache_fault) ELSE OkNone
        p == DbGet(db, key, db_fault)
    IN IF cache_db # <<>> /\ c.kind = "some"
       THEN [res |-> OkSome(c.val),
             msgs |-> Collected(stat_mode, format_stat_message(key, TRUE, TRUE)),
             primary_read |-> FALSE]
       ELSE [res |-> p,
             msgs |-> IF p.kind = "some"
                      THEN Collected(stat_mode,
                               format_stat_message(key, cache_db # <<>>, FALSE))
                      ELSE <<>>,
             primary_read |-> TRUE]

Adapters == {"lmdb", "mdbx", "legacy"}

\* Storage::get of the adapter a context was built with
storage_get(adapter, cache_db, cache_txn, db, key, cache_fault, db_fault, stat_mode) ==
    IF adapter = "lmdb"
    THEN lmdb_get(cache_db, cache_txn, db, key, cache_fault, db_fault, stat_mode)
    ELSE IF adapter = "mdbx"
    THEN mdbx_get(cache_db, db, key, cache_fault, db_fault, stat_mode)
    ELSE legacy_get(cache_db, db, key, cache_fault, db_fault, stat_mode)

(***************************************************************************)
(* The authorization engine (the traversal the adapters call as            *)
(* authorize(uri, user_uri, request_access, storage, trace)).  Its source  *)
(* is not among the files of the repository: it is modelled from section   *)
(* 4.3 of the specification.  What the section leaves open is fixed here:  *)
(*   - ids are expanded, and the P records of the resource-side ids read,  *)
(*     in the order of discovery; the entries of a value are processed in  *)
(*     the order of the text;                                              *)
(*   - the short-circuit of step 6 is tested before each read and after    *)
(*     each entry; it ends the traversal, the filter of step 5 is still    *)
(*     applied;                                                            *)
(*   - a group reached twice keeps the ignore-exclusive flag only when     *)
(*     every edge that reached it carries it;                              *)
(*   - the propagation masks are carried by the records but step 3 grants  *)
(*     `P_bits & requested & ~denied`, so they do not enter the result;    *)
(*   - PN records are not configured.                                      *)
(* Time is counted in half days, so that "later than D plus one day" has   *)
(* an instant on either side of the boundary.                              *)
(***************************************************************************)
MEMBERSHIP_PREFIX == <<"M">>
PERMISSION_PREFIX == <<"P">>
FILTER_PREFIX == <<"F">>

TicksPerDay == 2
TimeOf(date) == DayNumber(date) * TicksPerDay

\* the record is treated as absent: T > D + one day
IsExpired(date, now) == date # <<>> /\ now > TimeOf(date[1]) + TicksPerDay

PermitBits(access) == BitAnd(access, 15)
\* the deny bits, moved onto the permit bits they deny
DenyBits(access) == BitAnd(access, 240) \div 16

\* step 6: nothing more can be granted
ShortCircuit(st, request_access) == st.granted = BitClear(request_access, st.denied)

\* the traversal ends as soon as the short-circuit holds
Settle(st, request_access) ==
    IF st.phase \notin {"filter", "done"} /\ ShortCircuit(st, request_access)
    THEN [st EXCEPT !.phase = "filter"] ELSE st

EngineStart(user_uri, uri, request_access) ==
  Settle(
    [phase |-> "expand_subject",
     s_groups |-> <<[id |-> user_uri, ignore |-> FALSE]>>, s_next |-> 1,
     o_groups |-> <<uri>>, o_next |-> 1, p_next |-> 1,
     granted |-> 0, denied |-> 0, exclusive |-> FALSE,
     \* history: bits ever granted, bits withheld by the pruning, the
     \* accumulator before and the access of the first exclusive record, the
     \* accumulator before the filter
     ever_granted |-> 0, suppressed |-> 0, excl_before |-> 0, excl_access |-> 0,
     prefilter |-> 0], request_access)

SubjectIds(st) == {st.s_groups[i].id : i \in 1..Len(st.s_groups)}
SubjectIgnore(st, id) ==
    LET i == CHOOSE i \in 1..Len(st.s_groups) : st.s_groups[i].id = id
    IN st.s_groups[i].ignore

\* the key the next read of the traversal asks for
EngineKey(st, uri) ==
    IF st.phase = "expand_subject" THEN MEMBERSHIP_PREFIX \o st.s_groups[st.s_next].id
    ELSE IF st.phase = "expand_object" THEN MEMBERSHIP_PREFIX \o st.o_groups[st.o_next]
    ELSE IF st.phase = "permissions" THEN PERMISSION_PREFIX \o st.o_groups[st.p_next]
    ELSE FILTER_PREFIX \o uri

\* the records of a decoded set in the order of the text, the later of two
\* records of one id alone
RECURSIVE LaterWins(_)
LaterWins(recs) ==
    IF recs = <<>> THEN <<>>
    ELSE (IF \E j \in 2..Len(recs) : recs[j].id = Head(recs).id THEN <<>> ELSE <<Head(recs)>>)
         \o LaterWins(Tail(recs))

RECURSIVE MergeSubjectGroups_requeues(_, _, _)
\* variant: no visited set on the user side, an id reached again is queued
\* again (the queue is cut at four entries)
MergeSubjectGroups_requeues(groups, recs, parent_ignore) ==
    IF recs = <<>> THEN groups
    ELSE LET r == Head(recs)
             ign == parent_ignore \/ r.marker = M_IGNORE_EXCLUSIVE
         IN MergeSubjectGroups_requeues(
                IF Len(groups) < 4 THEN Append(groups, [id |-> r.id, ignore |-> ign])
                ELSE groups,
                Tail(recs), parent_ignore)

RECURSIVE MergeSubjectGroups(_, _, _)
\* step 2, user side: merge the groups of a membership value
MergeSubjectGroups(groups, recs, parent_ignore) ==
    IF recs = <<>> THEN groups
    ELSE LET r == Head(recs)
             ign == parent_ignore \/ r.marker = M_IGNORE_EXCLUSIVE
             known == \E i \in 1..Len(groups) : groups[i].id = r.id
             merged == IF known
                       THEN [i \in 1..Len(groups) |->
                                IF groups[i].id = r.id
                                THEN [groups[i] EXCEPT !.ignore = groups[i].ignore /\ ign]
                                ELSE groups[i]]
                       ELSE Append(groups, [id |-> r.id, ignore |-> ign])
         IN MergeSubjectGroups(merged, Tail(recs), parent_ignore)

RECURSIVE MergeObjectGroups(_, _)
\* step 2, resource side
MergeObjectGroups(groups, recs) ==
    IF recs = <<>> THEN groups
    ELSE MergeObjectGroups(
            IF Head(recs).id \in Range(groups) THEN groups ELSE Append(groups, Head(recs).id),
            Tail(recs))

\* the membership records of a value read under an M key: none when the key
\* is absent or the value has expired
MembershipRecords(r, now) ==
    LET live(dec) == IF IsExpired(dec.date, now) THEN <<>> ELSE LaterWins(dec.recs)
    IN IF r.kind # "some" THEN <<>> ELSE live(decode_index_record(r.val, TRUE))

ExpandSubject(st, r, request_access, now) ==
    LET parent == st.s_groups[st.s_next]
        groups == MergeSubjectGroups(st.s_groups, MembershipRecords(r, now), parent.ignore)
    IN [st EXCEPT !.s_groups = groups,
                  !.s_next = st.s_next + 1,
                  !.phase = IF st.s_next + 1 > Len(groups) THEN "expand_object"
                            ELSE "expand_subject"]

ExpandObject(st, r, request_access, now) ==
    LET groups == MergeObjectGroups(st.o_groups, MembershipRecords(r, now))
    IN [st EXCEPT !.o_groups = groups,
                  !.o_next = st.o_next + 1,
                  !.phase = IF st.o_next + 1 > Len(groups) THEN "permissions"
                            ELSE "expand_object"]

\* variant: the permit bits are not masked by the request
GrantBits_unmasked(access, request_access, denied) ==
    BitClear(PermitBits(access), denied)

\* step 3, permit: P_bits & requested_access & ~denied
GrantBits(access, request_access, denied) ==
    BitClear(BitAnd(PermitBits(access), request_access), denied)

\* variant: a deny is recorded but does not clear what was granted before
ApplyEntry_keeps_granted(st, rec, request_access) ==
    LET added == IF st.exclusive THEN 0
                 ELSE GrantBits(rec.access, request_access, st.denied)
    IN [st EXCEPT !.granted = BitOr(st.granted, added),
                  !.denied = BitOr(st.denied, DenyBits(rec.access)),
                  !.exclusive = st.exclusive
                                \/ (rec.marker = M_IS_EXCLUSIVE /\ ~SubjectIgnore(st, rec.id)),
                  !.ever_granted = BitOr(st.ever_granted, added)]

\* variant: an exclusive record is noted but prunes nothing
ApplyEntry_no_pruning(st, rec, request_access) ==
    LET added == GrantBits(rec.access, request_access, st.denied)
        denied == BitOr(st.denied, DenyBits(rec.access))
        prunes == rec.marker = M_IS_EXCLUSIVE /\ ~SubjectIgnore(st, rec.id)
    IN [st EXCEPT !.granted = BitClear(BitOr(st.granted, added), denied),
                  !.denied = denied,
                  !.exclusive = st.exclusive \/ prunes,
                  !.ever_granted = BitOr(st.ever_granted, added),
                  !.excl_before = IF ~st.exclusive /\ prunes THEN st.granted
                                  ELSE st.excl_before,
                  !.excl_access = IF ~st.exclusive /\ prunes THEN rec.access
                                  ELSE st.excl_access]

\* steps 3 and 4 for one entry whose grantee is in the user's groups
ApplyEntry(st, rec, request_access) ==
    LET offered == GrantBits(rec.access, request_access, st.denied)
        added == IF st.exclusive THEN 0 ELSE offered
        denied == BitOr(st.denied, DenyBits(rec.access))
        prunes == rec.marker = M_IS_EXCLUSIVE /\ ~SubjectIgnore(st, rec.id)
    IN [st EXCEPT !.granted = BitClear(BitOr(st.granted, added), denied),
                  !.denied = denied,
                  !.exclusive = st.exclusive \/ prunes,
                  !.ever_granted = BitOr(st.ever_granted, added),
                  !.suppressed = IF st.exclusive
                                 THEN BitOr(st.suppressed, BitClear(offered, st.granted))
                                 ELSE st.suppressed,
                  !.excl_before = IF ~st.exclusive /\ prunes THEN st.granted
                                  ELSE st.excl_before,
                  !.excl_access = IF ~st.exclusive /\ prunes THEN rec.access
                                  ELSE st.excl_access]

RECURSIVE ApplyEntries(_, _, _)
\* the entries of one P value, until the short-circuit holds
ApplyEntries(st, recs, request_access) ==
    IF recs = <<>> \/ ShortCircuit(st, request_access) THEN st
    ELSE ApplyEntries(
            IF Head(recs).id \in SubjectIds(st)
            THEN ApplyEntry(st, Head(recs), request_access) ELSE st,
            Tail(recs), request_access)

PermissionRecords(r, now) ==
    LET live(dec) == IF IsExpired(dec.date, now) THEN <<>> ELSE dec.recs
    IN IF r.kind # "some" THEN <<>> ELSE live(decode_rec_to_rights(r.val))

ApplyPermissions(st, r, request_access, now) ==
    LET after == ApplyEntries(st, PermissionRecords(r, now), request_access)
    IN [after EXCEPT !.p_next = st.p_next + 1,
                     !.phase = IF st.p_next + 1 > Len(st.o_groups) THEN "filter"
                               ELSE "permissions"]

\* variant: the filter adds its bits
ApplyFilter_unions(st, r, now) ==
    LET filtered(f) == IF IsExpired(f.date, now) THEN st.granted
                       ELSE BitOr(st.granted, f.rec.access)
    IN [st EXCEPT !.prefilter = st.granted,
                  !.granted = IF r.kind = "some" THEN filtered(decode_filter(r.val))
                              ELSE st.granted,
                  !.phase = "done"]

\* step 5: intersect with the access of a filter that has not expired
ApplyFilter(st, r, now) ==
    LET filtered(f) == IF IsExpired(f.date, now) THEN st.granted
                       ELSE BitAnd(st.granted, f.rec.access)
    IN [st EXCEPT !.prefilter = st.granted,
                  !.granted = IF r.kind = "some" THEN filtered(decode_filter(r.val))
                              ELSE st.granted,
                  !.phase = "done"]

\* one read of the traversal and what the engine does with the value read;
\* r is the Ok result of the get for EngineKey(st, uri)
EngineApply(st, r, request_access, now) ==
    IF st.phase = "filter" THEN ApplyFilter(st, r, now)
    ELSE IF st.phase = "expand_subject"
    THEN Settle(ExpandSubject(st, r, request_access, now), request_access)
    ELSE IF st.phase = "expand_object"
    THEN Settle(ExpandObject(st, r, request_access, now), request_access)
    ELSE Settle(ApplyPermissions(st, r, request_access, now), request_access)

RECURSIVE RunEngine(_, _, _, _, _)
\* the whole traversal over a store every read of which succeeds
RunEngine(st, store, uri, request_access, now) ==
    IF st.phase = "done" THEN st
    ELSE RunEngine(EngineApply(st, DbGet(store, EngineKey(st, uri), FALSE), request_access, now),
                   store, uri, request_access, now)

\* authorize(uri, user_uri, request_access, storage, trace) without faults
authorize(uri, user_uri, request_access, store, now) ==
    RunEngine(EngineStart(user_uri, uri, request_access), store, uri, request_access, now).granted

(***************************************************************************)
(* Contexts.  A context is the record of the fields of an *AzContext and   *)
(* of its StatPub:                                                         *)
(*   adapter, authorize_counter, max_authorize_counter, use_cache,         *)
(*   stat_mode ("NoStat" when stat is None), is_connected, message_buffer. *)
(* The environment it reads is the record of the primary database, the     *)
(* cache database and the wall clock.  authorize_counter is a u64 that is  *)
(* reset before it can reach u64::MAX, so its width plays no part.         *)
(*                                                                         *)
(* The I/O failures of one run of authorize_use_db are an input of the     *)
(* run: `open` is the failure to create the read transaction or the        *)
(* database handle, `read` the number of the read of the primary database  *)
(* that fails (0: none).                                                   *)
(***************************************************************************)
Ok(r) == [kind |-> "ok", val |-> r, err |-> ""]
Err(e) == [kind |-> "err", val |-> 0, err |-> e]

NoFault == [open |-> FALSE, read |-> 0]

RECURSIVE Traverse(_, _, _, _, _, _, _, _, _)
\* the engine after a read: an Err of get ends the run
Traversed(st, storage, uri, user_uri, request_access, now, fault, n, msgs, g) ==
    IF g.res.kind = "err" THEN [res |-> Err("db.get"), msgs |-> msgs \o g.msgs]
    ELSE Traverse(EngineApply(st, g.res, request_access, now), storage, uri, user_uri,
                  request_access, now, fault, IF g.primary_read THEN n + 1 ELSE n,
                  msgs \o g.msgs)

\* authorize(uri, user_uri, request_access, &mut storage, trace): the engine
\* over Storage::get of the adapter.  n is the number of the next read of the
\* primary database.
Traverse(st, storage, uri, user_uri, request_access, now, fault, n, msgs) ==
    IF st.phase = "done" THEN [res |-> Ok(st.granted), msgs |-> msgs]
    ELSE Traversed(st, storage, uri, user_uri, request_access, now, fault, n, msgs,
                   storage_get(storage.adapter, storage.cache_db, storage.cache_txn,
                               storage.db, EngineKey(st, uri), FALSE, fault.read = n,
                               storage.stat_mode))

\* the Az*Storage a run builds from the context and the environment
StorageOf(ctx, env) ==
    [adapter |-> ctx.adapter, db |-> env.db,
     cache_db |-> IF ctx.use_cache THEN <<env.cache>> ELSE <<>>,
     cache_txn |-> IF ctx.use_cache THEN <<env.cache>> ELSE <<>>,
     stat_mode |-> ctx.stat_mode]

\* LmdbAzContext::authorize_use_db (heed): read_txn and open_database of the
\* primary and of the cache environment, then the engine
lmdb_authorize_use_db(ctx, env, uri, user_uri, request_access, fault) ==
    IF fault.open THEN [res |-> Err("txn"), msgs |-> <<>>]
    ELSE Traverse(EngineStart(user_uri, uri, request_access), StorageOf(ctx, env), uri,
                  user_uri, request_access, env.now, fault, 1, <<>>)

\* MdbxAzContext::authorize_use_db: the storage opens a transaction for each
\* read, so a failure to open one is the failure of that read
mdbx_authorize_use_db(ctx, env, uri, user_uri, request_access, fault) ==
    Traverse(EngineStart(user_uri, uri, request_access), StorageOf(ctx, env), uri,
             user_uri, request_access, env.now,
             [fault EXCEPT !.read = IF fault.open THEN 1 ELSE fault.read], 1, <<>>)

\* LmdbAzContext::authorize_use_db (lmdb_rs_m): get_default_db and get_reader
\* of the primary and of the cache environment, then the engine
legacy_authorize_use_db(ctx, env, uri, user_uri, request_access, fault) ==
    IF fault.open THEN [res |-> Err("txn"), msgs |-> <<>>]
    ELSE Traverse(EngineStart(user_uri, uri, request_access), StorageOf(ctx, env), uri,
                  user_uri, request_access, env.now, fault, 1, <<>>)

\* the failure of the storage a run meets, as a field name
FaultName(fault) ==
    IF fault = NoFault THEN "none"
    ELSE IF fault.open THEN "open"
    ELSE IF fault.read = 1 THEN "read1" ELSE "read2"

\* what a run gives under each failure of the storage
RunsByFault(use_db(_)) ==
    [none |-> use_db(NoFault),
     open |-> use_db([open |-> TRUE, read |-> 0]),
     read1 |-> use_db([open |-> FALSE, read |-> 1]),
     read2 |-> use_db([open |-> FALSE, read |-> 2])]

\* self.authorize_use_db(uri, user_uri, request_access, trace) of a call, by
\* the failure its run meets
UseDb(ctx, env, uri, user_uri, request_access) ==
    LET lmdb(fault) == lmdb_authorize_use_db(ctx, env, uri, user_uri, request_access, fault)
        mdbx(fault) == mdbx_authorize_use_db(ctx, env, uri, user_uri, request_access, fault)
        legacy(fault) ==
            legacy_authorize_use_db(ctx, env, uri, user_uri, request_access, fault)
    IN IF ctx.adapter = "lmdb" THEN RunsByFault(lmdb)
       ELSE IF ctx.adapter = "mdbx" THEN RunsByFault(mdbx)
       ELSE RunsByFault(legacy)

\* `counter += 1; if counter >= max { counter = 0 }`
NextCounter(ctx) ==
    IF ctx.authorize_counter + 1 >= ctx.max_authorize_counter THEN 0
    ELSE ctx.authorize_counter + 1

Counted(ctx) == [ctx EXCEPT !.authorize_counter = NextCounter(ctx)]

\* what a call of authorize_and_trace leaves: the context, the result, the
\* results of the runs of authorize_use_db in order, and whether opening the
\* environment again failed ("": it did not, or was not tried)
Outcome(ctx, res, runs, reopen) == [ctx |-> ctx, res |-> res, runs |-> runs, reopen |-> reopen]

\* stat.point.collect of the messages of a run
Buffered(ctx, msgs) == [ctx EXCEPT !.message_buffer = ctx.message_buffer \o msgs]

\* variant: the counter is incremented by the second run too
RunTwice_counts_runs(ctx, first, second) ==
    IF first.res.kind = "ok"
    THEN Outcome(Buffered(ctx, first.msgs), first.res, <<first.res>>, "")
    ELSE Outcome(Buffered(Buffered([ctx EXCEPT !.authorize_counter = @ + 1], first.msgs),
                          second.msgs),
                 second.res, <<first.res, second.res>>, "")

\* variant: the decision of the call at which the counter is reset is lost
RunTwice_resets(ctx, first, second) ==
    IF first.res.kind = "ok"
    THEN Outcome(Buffered(ctx, first.msgs),
                 IF ctx.authorize_counter = 0 THEN Ok(0) ELSE first.res, <<first.res>>, "")
    ELSE Outcome(Buffered(Buffered(ctx, first.msgs), second.msgs), second.res,
                 <<first.res, second.res>>, "")

\* variant: the entries collected by the failed run are dropped before the
\* second run
RunTwice_drops_failed(ctx, first, second) ==
    IF first.res.kind = "ok"
    THEN Outcome(Buffered(ctx, first.msgs), first.res, <<first.res>>, "")
    ELSE Outcome(Buffered(ctx, second.msgs), second.res, <<first.res, second.res>>, "")

\* `match authorize_use_db(..) { Ok(r) => return Ok(r), Err(_e) => {} }`, then
\* `authorize_use_db(..)`; first and second are what the two runs give
RunTwice(ctx, first, second) ==
    IF first.res.kind = "ok"
    THEN Outcome(Buffered(ctx, first.msgs), first.res, <<first.res>>, "")
    ELSE Outcome(Buffered(Buffered(ctx, first.msgs), second.msgs), second.res,
                 <<first.res, second.res>>, "")

\* LmdbAzContext::authorize_and_trace (heed): the environment is shared and
\* is not opened again
lmdb_authorize_and_trace(ctx, use_db, plan) ==
    RunTwice(Counted(ctx), use_db[FaultName(plan.first)], use_db[FaultName(plan.second)])

\* variant: the decision is run again as long as it fails, up to three times
authorize_and_trace_impl_thrice(ctx, use_db, plan) ==
    LET twice == RunTwice(Counted(ctx), use_db[FaultName(plan.first)],
                          use_db[FaultName(plan.second)])
        again(third) == Outcome(Buffered(twice.ctx, third.msgs), third.res,
                                Append(twice.runs, third.res), "")
    IN IF twice.res.kind = "ok" THEN twice
       ELSE again(use_db[FaultName(NoFault)])

\* AuthorizationHelper::authorize_and_trace_impl, with the authorize_use_db
\* of MdbxAzContext
authorize_and_trace_impl(ctx, use_db, plan) ==
    RunTwice(Counted(ctx), use_db[FaultName(plan.first)], use_db[FaultName(plan.second)])

\* the runs of the legacy authorize_and_trace: after a failed run the
\* environment is opened again, and `return Err(e)` when that fails
LegacyRuns(ctx, first, reopen_retry, second) ==
    IF first.res.kind = "ok"
    THEN Outcome(Buffered(ctx, first.msgs), first.res, <<first.res>>, "")
    ELSE IF reopen_retry
    THEN Outcome(Buffered(ctx, first.msgs), first.res, <<first.res>>, "retry")
    ELSE Outcome(Buffered(Buffered(ctx, first.msgs), second.msgs), second.res,
                 <<first.res, second.res>>, "")

\* LmdbAzContext::authorize_and_trace (lmdb_rs_m): the environment is opened
\* again when the counter is reset and after a failed run; plan.reopen_reset
\* and plan.reopen_retry tell whether that fails
legacy_authorize_and_trace(ctx, use_db, plan) ==
    IF ctx.authorize_counter + 1 >= ctx.max_authorize_counter /\ plan.reopen_reset
    THEN Outcome(Counted(ctx), Err("open environment"), <<>>, "reset")
    ELSE LegacyRuns(Counted(ctx), use_db[FaultName(plan.first)], plan.reopen_retry,
                    use_db[FaultName(plan.second)])

\* StatPub::flush: connect when not connected, send, clear the buffer; an
\* error of connect or of send returns before the buffer is cleared
flush(ctx, flush_fault) ==
    IF ~ctx.is_connected /\ flush_fault = "connect" THEN ctx
    ELSE IF flush_fault = "send" THEN [ctx EXCEPT !.is_connected = TRUE]
    ELSE [ctx EXCEPT !.is_connected = TRUE, !.message_buffer = <<>>]

\* the tail of authorize: set_duration and flush in the modes Full and Minimal
FlushStat(ctx, flush_fault) ==
    IF ctx.stat_mode \in {"Full", "Minimal"} THEN flush(ctx, flush_fault) ELSE ctx

\* the calls the tail of authorize makes on stat.point
StatCalls(ctx) ==
    IF ctx.stat_mode \in {"Full", "Minimal"} THEN <<"set_duration", "flush">> ELSE <<>>

\* the entries of the messages the tail of authorize hands to socket.send
\* without an error: flush of src/az_impl returns before the send when the
\* buffer is empty
Sent(ctx, flush_fault) ==
    IF /\ ctx.stat_mode \in {"Full", "Minimal"}
       /\ ~(~ctx.is_connected /\ flush_fault = "connect")
       /\ ~(ctx.adapter = "legacy" /\ ctx.message_buffer = <<>>)
       /\ flush_fault # "send"
    THEN <<ctx.message_buffer>> ELSE <<>>

\* variant: the error of the flush is returned in place of the decision
authorize_with_stat_propagates(out, flush_fault) ==
    [ctx |-> FlushStat(out.ctx, flush_fault),
     stat_calls |-> StatCalls(out.ctx), sent |-> Sent(out.ctx, flush_fault),
     res |-> IF /\ out.ctx.stat_mode \in {"Full", "Minimal"}
                /\ \/ ~out.ctx.is_connected /\ flush_fault = "connect"
                   \/ flush_fault = "send"
             THEN Err("flush") ELSE out.res]

\* authorize_with_stat, and authorize of the two LmdbAzContext: `r` is what
\* authorize_and_trace returned; the Err of flush is logged
authorize_with_stat(out, flush_fault) ==
    [ctx |-> FlushStat(out.ctx, flush_fault), res |-> out.res,
     stat_calls |-> StatCalls(out.ctx), sent |-> Sent(out.ctx, flush_fault)]

(***************************************************************************)
(* State.                                                                  *)
(***************************************************************************)
VARIABLES
    c_pc,       \* codec run: "input", "encoded", "decoded"
    c_in,       \* codec run: the arguments of encode_record
    c_text,     \* codec run: the text encode_record returned
    c_out,      \* codec run: what decode_rec_to_rightset returned
    g_pc,       \* storage: "ready", "returned"
    g_storage,  \* storage: the fields of the Az*Storage struct and its adapter
    g_call,     \* storage: the key of the get and the faults injected into it
    g_ret,      \* storage: what get returned
    e_in,       \* engine: the store, the request and the instant of the call
    e_st,       \* engine: the state of the traversal
    x_ctx,      \* context: the fields of the *AzContext and of its StatPub
    x_env,      \* context: the databases it reads and the wall clock
    x_calls,    \* context: the number of authorize calls made
    x_faults,   \* context: the number of I/O failures injected
    x_last,     \* context: the last call, <<>> before the first
    u_pc,       \* counters: "off", "adding", "removing"
    u_bit,      \* counters: the access bit the calls are for
    u_counters, \* counters: the counter map handed to update_counters
    u_out,      \* counters: the access the last call returned, NoNum before
    u_adds,     \* counters: the number of add calls made
    u_removes,  \* counters: the number of remove calls made
    p_impl,     \* sidecar: the crate of the StatPub, "off" when not running
    p_pub,      \* sidecar: the fields of the StatPub
    p_sent,     \* sidecar: the messages the socket has sent
    p_since,    \* sidecar: the entries collected since the last flush call
    p_ops,      \* sidecar: the number of calls made
    p_last,     \* sidecar: the last call, <<>> before the first
    t_pc,       \* snapshot: "off", "idle", "running", "done"
    t_adapter,  \* snapshot: the adapter of the context
    t_commits,  \* snapshot: the number of commits of the writer
    t_txn,      \* snapshot: the commit the read transaction of the run was opened at
    t_st,       \* snapshot: the state of the traversal
    t_reads,    \* snapshot: the reads of the run, in order
    o_impl,     \* construction: the adapter, "off" when not running
    o_pc,       \* construction: the position of each thread in open
    o_holder,   \* construction: the thread inside the initialisation, 0 when none
    o_global,   \* construction: the shared handle, 0 while there is none
    o_ctx,      \* construction: the handle and the epoch of the context of each thread
    o_opens,    \* construction: the environments opened so far
    o_fails,    \* construction: the failed attempts to open
    o_resets,   \* construction: the calls of reset_global_envs
    f_pc,       \* function run: "input", "returned"
    f_arg,      \* function run: the argument
    f_ret,      \* function run: what the function returned
    m_self,           \* the MemoryStorage: its three maps
    m_put,            \* per StorageId and key, the last value put and not removed since
    m_ret,            \* the last call of the MemoryStorage and what it returned
    r_pc,       \* transactions: the position of the context in authorize
    r_ctx,      \* transactions: the adapter of the context and whether it has a cache
    r_held,     \* transactions: the read transactions the context holds open
    r_attempt,  \* transactions: 0 when idle, else the run of authorize_use_db (1, 2)
    r_st,       \* transactions: the state of the traversal of the run
    r_local,    \* transactions: cache_db of the run, from_cache of the read
    r_path,     \* transactions: how the runs of the last call ended
    r_calls,    \* transactions: the calls returned
    u_call,     \* counter run: the last call made with drop_count or at counter 0
    l_pc,       \* queue listener: "loop" at the head of the loop, "stopped" after it
    l_self,     \* queue listener: is_ready_notify_channel of the Module
    l_soc,      \* queue listener: the local soc, <<>> for None
    l_count,    \* queue listener: the local count_timeout_error
    l_last,     \* queue listener: size_batch, prepared_batch_size and recv of the last pass
    l_fails,    \* queue listener: failed receives with size_batch > 0 since the last success
    l_iter      \* queue listener: the passes of the loop so far

codec_vars == <<c_pc, c_in, c_text, c_out>>
get_vars == <<g_pc, g_storage, g_call, g_ret>>
engine_vars == <<e_in, e_st>>
context_vars == <<x_ctx, x_env, x_calls, x_faults, x_last>>
counter_vars == <<u_pc, u_bit, u_counters, u_out, u_adds, u_removes>>
stat_vars == <<p_impl, p_pub, p_sent, p_since, p_ops, p_last>>
snap_vars == <<t_pc, t_adapter, t_commits, t_txn, t_st, t_reads>>
open_vars == <<o_impl, o_pc, o_holder, o_global, o_ctx, o_opens, o_fails, o_resets>>
pure_vars == <<f_pc, f_arg, f_ret>>
mem_vars == <<m_self, m_put, m_ret>>
txn_vars == <<r_pc, r_ctx, r_held, r_attempt, r_st, r_local, r_path, r_calls>>
call_vars == <<u_call>>
listen_vars == <<l_pc, l_self, l_soc, l_count, l_last, l_fails, l_iter>>
vars == <<c_pc, c_in, c_text, c_out, g_pc, g_storage, g_call, g_ret, e_in, e_st,
          x_ctx, x_env, x_calls, x_faults, x_last,
          u_pc, u_bit, u_counters, u_out, u_adds, u_removes,
          p_impl, p_pub, p_sent, p_since, p_ops, p_last,
          t_pc, t_adapter, t_commits, t_txn, t_st, t_reads,
          o_impl, o_pc, o_holder, o_global, o_ctx, o_opens, o_fails, o_resets,
          f_pc, f_arg, f_ret,
          m_self, m_put, m_ret,
          r_pc, r_ctx, r_held, r_attempt, r_st, r_local, r_path, r_calls,
          u_call,
          l_pc, l_self, l_soc, l_count, l_last, l_fails, l_iter>>

\* the values of the variables of a component that is not running
CodecOff ==
    /\ c_pc = "off"
    /\ c_in = <<>>
    /\ c_text = <<>>
    /\ c_out = <<>>

GetOff ==
    /\ g_pc = "off"
    /\ g_storage = <<>>
    /\ g_call = <<>>
    /\ g_ret = <<>>

EngineOff ==
    /\ e_in = <<>>
    /\ e_st = <<>>

ContextOff ==
    /\ x_ctx = <<>>
    /\ x_env = <<>>
    /\ x_calls = 0
    /\ x_faults = 0
    /\ x_last = <<>>

CountersOff ==
    /\ u_pc = "off"
    /\ u_bit = 0
    /\ u_counters = <<>>
    /\ u_out = NoNum
    /\ u_adds = 0
    /\ u_removes = 0

StatOff ==
    /\ p_impl = "off"
    /\ p_pub = <<>>
    /\ p_sent = <<>>
    /\ p_since = <<>>
    /\ p_ops = 0
    /\ p_last = <<>>

SnapOff ==
    /\ t_pc = "off"
    /\ t_adapter = ""
    /\ t_commits = 0
    /\ t_txn = NoNum
    /\ t_st = <<>>
    /\ t_reads = <<>>

OpenOff ==
    /\ o_impl = "off"
    /\ o_pc = <<>>
    /\ o_holder = 0
    /\ o_global = 0
    /\ o_ctx = <<>>
    /\ o_opens = 0
    /\ o_fails = 0
    /\ o_resets = 0

PureOff ==
    /\ f_pc = "off"
    /\ f_arg = <<>>
    /\ f_ret = <<>>

MemOff ==
    /\ m_self = <<>>
    /\ m_put = <<>>
    /\ m_ret = <<>>

TxnOff ==
    /\ r_pc = "off"
    /\ r_ctx = <<>>
    /\ r_held = {}
    /\ r_attempt = 0
    /\ r_st = <<>>
    /\ r_local = <<>>
    /\ r_path = <<>>
    /\ r_calls = 0

CallOff ==
    /\ u_call = <<>>

ListenOff ==
    /\ l_pc = "off"
    /\ l_self = <<>>
    /\ l_soc = <<>>
    /\ l_count = 0
    /\ l_last = <<>>
    /\ l_fails = 0
    /\ l_iter = 0

(***************************************************************************)
(* Codec runs: encode_record on a record set, then decode_rec_to_rightset  *)
(* on the text it returned.                                                *)
(***************************************************************************)
\* tags of the input records of format 2: a permit, a second permit, a deny
SampleTags == {"R", "U", "r"}

RECURSIVE AccessOfTags(_)
AccessOfTags(T) ==
    IF T = {} THEN 0
    ELSE LET t == CHOOSE t \in T : TRUE
         IN BitOr(access8_from_char(t), AccessOfTags(T \ {t}))

\* records as a writer holds them: a counter of at least 1 for each access
\* bit that is set, and no other counter
WellFormedRecords(id) ==
    {[id |-> id, access |-> AccessOfTags(DOMAIN cs), marker |-> mk,
      is_deleted |-> FALSE, counters |-> cs] :
        cs \in UNION {[T -> 1..MaxCount] : T \in (SUBSET SampleTags) \ {{}}},
        mk \in {NUL, M_IS_EXCLUSIVE, M_IGNORE_EXCLUSIVE}}

IdA == <<"a">>
IdB == <<"b">>

SecondRecords ==
    {[id |-> IdB, access |-> 2, marker |-> NUL, is_deleted |-> FALSE,
      counters |-> [t \in {"R"} |-> 1]],
     [id |-> IdB, access |-> 34, marker |-> NUL, is_deleted |-> FALSE,
      counters |-> [t \in {"R", "r"} |-> IF t = "R" THEN MaxCount ELSE 1]]}

SampleDates == {<<>>, <<[y |-> 2000, m |-> 1, d |-> 1]>>}

\* the records of the sets with deletions
DeletableRecords ==
    {[id |-> IdA, access |-> 6, marker |-> mk, is_deleted |-> FALSE,
      counters |-> [t \in {"R", "U"} |-> 1]] : mk \in {NUL, M_IS_EXCLUSIVE}}

CodecInputsV2 ==
    {[version |-> 2, date |-> dt, rights |-> EmptyMap, key_order |-> <<>>,
      reversed |-> FALSE] : dt \in SampleDates}
    \cup
    {[version |-> 2, date |-> dt, rights |-> [k \in {IdA} |-> ra],
      key_order |-> <<IdA>>, reversed |-> rv] :
        dt \in SampleDates, ra \in WellFormedRecords(IdA), rv \in BOOLEAN}
    \cup
    {[version |-> 2, date |-> dt,
      rights |-> [k \in {IdA, IdB} |-> IF k = IdA THEN ra ELSE rb],
      key_order |-> ko, reversed |-> rv] :
        dt \in SampleDates, ra \in WellFormedRecords(IdA), rb \in SecondRecords,
        ko \in {<<IdA, IdB>>, <<IdB, IdA>>}, rv \in BOOLEAN}

\* format 1: every access byte, every marker
CodecInputsV1 ==
    {[version |-> 1, date |-> <<>>,
      rights |-> [k \in {IdA} |-> [id |-> IdA, access |-> a, marker |-> mk,
                                   is_deleted |-> FALSE, counters |-> EmptyMap]],
      key_order |-> <<IdA>>, reversed |-> FALSE] :
        a \in 0..255, mk \in {NUL, M_IS_EXCLUSIVE, M_IGNORE_EXCLUSIVE}}

\* sets with records marked deleted: one record, and two records of which
\* the first, the second or both are deleted
CodecInputsDeleted ==
    {[version |-> v, date |-> dt,
      rights |-> [k \in {IdA} |-> [ra EXCEPT !.is_deleted = TRUE]],
      key_order |-> <<IdA>>, reversed |-> FALSE] :
        v \in {1, 2}, dt \in SampleDates, ra \in DeletableRecords}
    \cup
    {[version |-> v, date |-> dt,
      rights |-> [k \in {IdA, IdB} |->
                    IF k = IdA THEN [ra EXCEPT !.is_deleted = del[1]]
                    ELSE [rb EXCEPT !.is_deleted = del[2]]],
      key_order |-> ko, reversed |-> FALSE] :
        v \in {1, 2}, dt \in SampleDates, ra \in DeletableRecords, rb \in SecondRecords,
        del \in {<<TRUE, FALSE>>, <<FALSE, TRUE>>, <<TRUE, TRUE>>},
        ko \in {<<IdA, IdB>>, <<IdB, IdA>>}}

CodecInit ==
    /\ c_pc = "input"
    /\ c_in \in CodecInputsV1 \cup CodecInputsV2 \cup CodecInputsDeleted
    /\ c_text = <<>>
    /\ c_out = [ok |-> FALSE, date |-> <<>>, set |-> EmptyMap]
    /\ GetOff
    /\ EngineOff
    /\ ContextOff
    /\ CountersOff
    /\ StatOff
    /\ SnapOff
    /\ OpenOff
    /\ PureOff
    /\ MemOff
    /\ TxnOff
    /\ CallOff
    /\ ListenOff

CodecEncode ==
    /\ c_pc = "input"
    /\ c_text' = encode_record(c_in.date, c_in.rights, c_in.key_order, c_in.version,
                               c_in.reversed)
    /\ c_pc' = "encoded"
    /\ UNCHANGED <<c_in, c_out, get_vars, engine_vars, context_vars, counter_vars, stat_vars, snap_vars, open_vars, pure_vars, mem_vars, txn_vars, call_vars, listen_vars>>

CodecDecode ==
    /\ c_pc = "encoded"
    /\ c_out' = decode_rec_to_rightset(c_text, EmptyMap)
    /\ c_pc' = "decoded"
    /\ UNCHANGED <<c_in, c_text, get_vars, engine_vars, context_vars, counter_vars, stat_vars, snap_vars, open_vars, pure_vars, mem_vars, txn_vars, call_vars, listen_vars>>

CodecNext == CodecEncode \/ CodecDecode

SpecCodec == CodecInit /\ [][CodecNext]_vars

(***************************************************************************)
(* C9.  Format 2 round trip: decode_rec_to_rightset of encode_record(date, *)
(* set, 2) succeeds and gives back the records of the set: the same ids,   *)
(* access bits, markers and counters.                                      *)
(***************************************************************************)
C9_RoundTripV2 ==
    (c_pc = "decoded" /\ c_in.version = 2) =>
        /\ c_out.ok
        /\ DOMAIN c_out.set = DOMAIN c_in.rights
        /\ \A k \in DOMAIN c_in.rights :
              /\ c_out.set[k].id = c_in.rights[k].id
              /\ c_out.set[k].access = c_in.rights[k].access
              /\ c_out.set[k].marker = c_in.rights[k].marker
              /\ c_out.set[k].counters = c_in.rights[k].counters

(***************************************************************************)
(* C10.  Format 1 round trip: for every access byte and every marker, the  *)
(* record decoded from the text of encode_record(.., 1) has the same       *)
(* access byte and the same marker.                                        *)
(***************************************************************************)
C10_RoundTripV1 ==
    (c_pc = "decoded" /\ c_in.version = 1) =>
        /\ IdA \in DOMAIN c_out.set
        /\ c_out.set[IdA].access = c_in.rights[IdA].access
        /\ c_out.set[IdA].marker = c_in.rights[IdA].marker

(***************************************************************************)
(* Storage runs: one get on a storage struct, for every adapter, every     *)
(* content of the primary and of the cache, and every fault.               *)
(***************************************************************************)
KeyPd == <<"P", "d">>
KeyMa == <<"M", "a">>
GetKeys == {KeyPd, KeyMa}
GetValues == {<<"a", ";", "R", ";">>, <<"X">>}
GetDbs == UNION {[K -> GetValues] : K \in SUBSET GetKeys}
StatModes == {"NoStat", "Full", "Minimal", "None"}

\* the structs authorize_use_db can build: with the heed adapter a cache
\* transaction is held whenever the context has a cache environment, also
\* when the cache database was not found in it
GetStorages ==
    {[adapter |-> ad, db |-> db, cache_db |-> cd, cache_txn |-> ct, stat_mode |-> sm] :
        ad \in Adapters, db \in GetDbs,
        cd \in {<<>>} \cup {<<c>> : c \in GetDbs},
        ct \in {<<>>, <<"txn">>}, sm \in StatModes}

GetInit ==
    /\ g_pc = "ready"
    /\ g_storage \in {st \in GetStorages :
            /\ st.cache_db # <<>> => st.cache_txn # <<>>
            /\ st.adapter # "lmdb" => (st.cache_txn # <<>> <=> st.cache_db # <<>>)}
    /\ g_call = <<>>
    /\ g_ret = <<>>
    /\ CodecOff
    /\ EngineOff
    /\ ContextOff
    /\ CountersOff
    /\ StatOff
    /\ SnapOff
    /\ OpenOff
    /\ PureOff
    /\ MemOff
    /\ TxnOff
    /\ CallOff
    /\ ListenOff

StorageGet(key, cache_fault, db_fault) ==
    /\ g_pc = "ready"
    /\ g_call' = [key |-> key, cache_fault |-> cache_fault, db_fault |-> db_fault]
    /\ g_ret' = storage_get(g_storage.adapter, g_storage.cache_db, g_storage.cache_txn,
                            g_storage.db, key, cache_fault, db_fault,
                            g_storage.stat_mode)
    /\ g_pc' = "returned"
    /\ UNCHANGED <<g_storage, codec_vars, engine_vars, context_vars, counter_vars, stat_vars, snap_vars, open_vars, pure_vars, mem_vars, txn_vars, call_vars, listen_vars>>

GetNext == \E key \in GetKeys, cf \in BOOLEAN, df \in BOOLEAN : StorageGet(key, cf, df)

SpecGet == GetInit /\ [][GetNext]_vars

\* the cache the get consults: the cache database, when the struct holds one
CacheConsulted == g_storage.cache_db # <<>> /\ g_storage.cache_txn # <<>>
CacheHit ==
    /\ CacheConsulted
    /\ ~g_call.cache_fault
    /\ g_call.key \in DOMAIN g_storage.cache_db[1]

\* what the primary lookup of the key gives
PrimaryLookup ==
    IF g_call.db_fault THEN IoErr
    ELSE IF g_call.key \in DOMAIN g_storage.db THEN OkSome(g_storage.db[g_call.key])
    ELSE OkNone

(***************************************************************************)
(* C7.  With a cache, get returns the cache's value when the cache holds   *)
(* the key and makes no primary lookup; on a cache miss or a cache read    *)
(* error it returns exactly what the primary lookup returns.               *)
(***************************************************************************)
C7_CacheFirst ==
    (g_pc = "returned" /\ CacheConsulted) =>
        /\ CacheHit =>
              /\ g_ret.res = OkSome(g_storage.cache_db[1][g_call.key])
              /\ ~g_ret.primary_read
        /\ ~CacheHit =>
              /\ g_ret.primary_read
              /\ g_ret.res = PrimaryLookup

\* a cache hit on a key whose primary value differs
C7_Witness ==
    /\ g_pc = "returned"
    /\ CacheHit
    /\ g_call.key \in DOMAIN g_storage.db
    /\ g_storage.db[g_call.key] # g_storage.cache_db[1][g_call.key]
    /\ g_ret.res = OkSome(g_storage.cache_db[1][g_call.key])
    /\ ~g_ret.primary_read

(***************************************************************************)
(* C8.  get returns Ok(None) for a key that is in neither the primary nor  *)
(* the cache, and Err only when the primary read itself failed.            *)
(***************************************************************************)
C8_MissIsNotError ==
    g_pc = "returned" =>
        /\ (/\ g_call.key \notin DOMAIN g_storage.db
            /\ ~g_call.db_fault
            /\ (CacheConsulted => g_call.key \notin DOMAIN g_storage.cache_db[1]))
           => g_ret.res = OkNone
        /\ g_ret.res.kind = "err" => (g_ret.primary_read /\ g_call.db_fault)

\* a key absent everywhere, read while the cache read fails
C8_Witness ==
    /\ g_pc = "returned"
    /\ CacheConsulted
    /\ g_call.cache_fault
    /\ ~g_call.db_fault
    /\ g_call.key \notin DOMAIN g_storage.db
    /\ g_call.key \notin DOMAIN g_storage.cache_db[1]
    /\ g_ret.res = OkNone

(***************************************************************************)
(* Engine runs: one authorize call of user "a" for resource "d", a read a  *)
(* step, over a store written by encode_record-style writers.  What the    *)
(* writers put under each key (the validity date and the body) is kept     *)
(* beside the text they produced.                                          *)
(***************************************************************************)
UserUri == <<"a">>
ResourceUri == <<"d">>

ValidUntil == [y |-> 2000, m |-> 1, d |-> 1]

Absent == <<>>
Undated(body) == <<[date |-> <<>>, body |-> body]>>
Dated(body) == <<[date |-> <<ValidUntil>>, body |-> body]>>

\* the text of a stored value: the date prefix, when there is one, and the body
Stamp(w) ==
    (IF w.date # <<>> THEN FormatDate(w.date[1]) \o <<",">> ELSE <<>>) \o w.body

StoreFields == {"Ma", "Mg", "Md", "Ms", "Pd", "Ps", "Fd"}
KeyOfField ==
    [Ma |-> <<"M", "a">>, Mg |-> <<"M", "g">>, Md |-> <<"M", "d">>, Ms |-> <<"M", "s">>,
     Pd |-> <<"P", "d">>, Ps |-> <<"P", "s">>, Fd |-> <<"F", "d">>]

\* user side: a is in g and h, the edge to g may carry N; g is in a (a cycle)
\* and in h
SubjectSide ==
    {[Ma |-> Absent, Mg |-> Absent]}
    \cup
    {[Ma |-> ma, Mg |-> mg] :
        ma \in {Undated(<<"g", ";", "R", ";", "h", ";", "R", ";">>),
                Undated(<<"g", ";", "R", "N", ";", "h", ";", "R", ";">>),
                Dated(<<"g", ";", "R", ";", "h", ";", "R", ";">>)},
        mg \in {Absent, Undated(<<"a", ";", "R", ";", "h", ";", "R", ";">>)}}

\* resource side: d is in s; s is in d (a cycle); the rights recorded on s
ObjectSide ==
    {[Md |-> Absent, Ms |-> Absent, Ps |-> Absent]}
    \cup
    {[Md |-> md, Ms |-> ms, Ps |-> ps] :
        md \in {Undated(<<"s", ";", "R", ";">>)},
        ms \in {Absent, Undated(<<"d", ";", "R", ";">>)},
        ps \in {Absent,
                Undated(<<"h", ";", "U", "r", ";">>),
                Undated(<<"g", ";", "M", "X", ";">>)}}
    \cup
    {[Md |-> Dated(<<"s", ";", "R", ";">>), Ms |-> Absent, Ps |-> ps] :
        ps \in {Absent,
                Undated(<<"h", ";", "U", "r", ";">>),
                Undated(<<"g", ";", "M", "X", ";">>)}}

ResourceRights ==
    {Absent,
     Undated(<<"a", ";", "R", ";", "a", ";", "r", ";">>),
     Undated(<<"a", ";", "r", ";", "a", ";", "R", ";">>),
     Undated(<<"g", ";", "R", "U", "X", ";", "h", ";", "P", ";">>),
     Undated(<<"h", ";", "P", ";", "g", ";", "R", "U", "X", ";">>),
     Dated(<<"a", ";", "R", "U", ";">>)}

ResourceFilters ==
    {Absent,
     Undated(<<"d", ";", "R", "P", ";">>),
     Dated(<<"d", ";", "M", ";">>)}

Written ==
    {[Ma |-> ss.Ma, Mg |-> ss.Mg, Md |-> os.Md, Ms |-> os.Ms, Ps |-> os.Ps,
      Pd |-> pd, Fd |-> fd] :
        ss \in SubjectSide, os \in ObjectSide, pd \in ResourceRights, fd \in ResourceFilters}

FieldOfKey(key) == CHOOSE f \in StoreFields : KeyOfField[f] = key

StoreOf(written) ==
    [key \in {KeyOfField[f] : f \in {f \in StoreFields : written[f] # Absent}} |->
        Stamp(written[FieldOfKey(key)][1])]

\* the store without one of its keys
Without(store, key) == [k \in DOMAIN store \ {key} |-> store[k]]

RequestSamples == {0, 2, 6, 15}

\* the last instant at which a value valid until ValidUntil is still used,
\* and the first at which it has expired
NowSamples == {TimeOf(ValidUntil) + TicksPerDay, TimeOf(ValidUntil) + TicksPerDay + 1}

EngineInit ==
    /\ e_in \in {[written |-> w, store |-> StoreOf(w), request_access |-> rq, now |-> t] :
                    w \in Written, rq \in RequestSamples, t \in NowSamples}
    /\ e_st = EngineStart(UserUri, ResourceUri, e_in.request_access)
    /\ CodecOff
    /\ GetOff
    /\ ContextOff
    /\ CountersOff
    /\ StatOff
    /\ SnapOff
    /\ OpenOff
    /\ PureOff
    /\ MemOff
    /\ TxnOff
    /\ CallOff
    /\ ListenOff

\* one read of the traversal in phase ph
EngineRead(ph) ==
    /\ e_st # <<>>
    /\ e_st.phase = ph
    /\ e_st' = EngineApply(e_st, DbGet(e_in.store, EngineKey(e_st, ResourceUri), FALSE),
                           e_in.request_access, e_in.now)
    /\ UNCHANGED <<e_in, codec_vars, get_vars, context_vars, counter_vars, stat_vars, snap_vars, open_vars, pure_vars, mem_vars, txn_vars, call_vars, listen_vars>>

EngineExpandSubject == EngineRead("expand_subject")
EngineExpandObject == EngineRead("expand_object")
EnginePermissions == EngineRead("permissions")
EngineFilter == EngineRead("filter")

EngineNext ==
    \/ EngineExpandSubject
    \/ EngineExpandObject
    \/ EnginePermissions
    \/ EngineFilter

SpecEngine == EngineInit /\ [][EngineNext]_vars

EngineDone == e_st # <<>> /\ e_st.phase = "done"

(***************************************************************************)
(* Context runs: a context of one of the three adapters, built over an     *)
(* environment that does not change, serves authorize calls of user "a"    *)
(* for resource "d"; the I/O failures of a call are inputs of the call.    *)
(***************************************************************************)
GroupRights ==
    [Ma |-> Undated(<<"g", ";", "R", ";", "h", ";", "R", ";">>), Mg |-> Absent,
     Md |-> Undated(<<"s", ";", "R", ";">>), Ms |-> Absent,
     Pd |-> Undated(<<"g", ";", "R", "U", "X", ";", "h", ";", "P", ";">>),
     Ps |-> Undated(<<"h", ";", "U", "r", ";">>), Fd |-> Absent]

NoRights ==
    [Ma |-> Absent, Mg |-> Absent, Md |-> Absent, Ms |-> Absent, Pd |-> Absent,
     Ps |-> Absent, Fd |-> Absent]

\* the cache holds the P records of the primary database
CacheOf(db) == [k \in {k \in DOMAIN db : Head(k) = "P"} |-> db[k]]

ContextEnvs ==
    {[db |-> StoreOf(w), cache |-> CacheOf(StoreOf(w)),
      now |-> TimeOf(ValidUntil) + TicksPerDay] : w \in {GroupRights, NoRights}}

Contexts ==
    {[adapter |-> ad, authorize_counter |-> 0, max_authorize_counter |-> mx,
      use_cache |-> uc, stat_mode |-> sm, is_connected |-> FALSE,
      message_buffer |-> <<>>] :
        ad \in Adapters, mx \in 0..(MaxCounter + 1), uc \in BOOLEAN,
        sm \in {"NoStat", "Full", "Minimal", "None"}}

ContextRequests == {2, 15}

FaultChoices ==
    {NoFault, [open |-> TRUE, read |-> 0], [open |-> FALSE, read |-> 1],
     [open |-> FALSE, read |-> 2]}

\* the number of failures a plan asks for
PlannedFaults(plan) ==
    (IF plan.first # NoFault THEN 1 ELSE 0) + (IF plan.second # NoFault THEN 1 ELSE 0)
    + (IF plan.reopen_reset THEN 1 ELSE 0) + (IF plan.reopen_retry THEN 1 ELSE 0)
    + (IF plan.flush # "" THEN 1 ELSE 0)

\* the plans that can happen to a call of the context: the second run and
\* the second opening of the environment follow a failed first run, the
\* environment is opened again by the legacy adapter alone, the sidecar is
\* used in the modes Full and Minimal
Plans(ctx, budget) ==
    {plan \in [first : FaultChoices, second : FaultChoices, reopen_reset : BOOLEAN,
               reopen_retry : BOOLEAN, flush : {"", "connect", "send"}] :
        /\ PlannedFaults(plan) <= budget
        /\ plan.second # NoFault => (plan.first # NoFault /\ ~plan.reopen_retry)
        /\ plan.reopen_retry => (plan.first # NoFault /\ ctx.adapter = "legacy")
        /\ plan.reopen_reset =>
            /\ ctx.adapter = "legacy"
            /\ ctx.authorize_counter + 1 >= ctx.max_authorize_counter
            /\ plan.first = NoFault
        /\ plan.flush # "" => ctx.stat_mode \in {"Full", "Minimal"}
        /\ plan.flush = "connect" => ~ctx.is_connected}

ContextInit ==
    /\ x_ctx \in Contexts
    /\ x_env \in ContextEnvs
    /\ x_calls = 0
    /\ x_faults = 0
    /\ x_last = <<>>
    /\ CodecOff
    /\ GetOff
    /\ EngineOff
    /\ CountersOff
    /\ StatOff
    /\ SnapOff
    /\ OpenOff
    /\ PureOff
    /\ MemOff
    /\ TxnOff
    /\ CallOff
    /\ ListenOff

\* history: the requests and bytes of the calls before the last one that
\* returned a byte
Earlier ==
    IF x_last = <<>> THEN {}
    ELSE x_last.earlier \cup
         (IF x_last.res.kind = "ok"
          THEN {[request_access |-> x_last.request_access, val |-> x_last.res.val]}
          ELSE {})

\* AuthorizationContext::authorize of the context: authorize_and_trace, then
\* the flush of the sidecar
Returned(out, request_access, plan) ==
    /\ LET returned(r) ==
            /\ x_ctx' = r.ctx
            /\ x_last' = [request_access |-> request_access, res |-> r.res,
                          decision |-> out.res, runs |-> out.runs,
                          reopen |-> out.reopen, flush |-> plan.flush,
                          collected |-> out.ctx.message_buffer,
                          buffered |-> x_ctx.message_buffer # <<>>,
                          before |-> x_ctx.message_buffer,
                          stat_calls |-> r.stat_calls, sent |-> r.sent,
                          counter |-> x_ctx.authorize_counter,
                          earlier |-> Earlier]
       IN returned(authorize_with_stat(out, plan.flush))
    /\ x_calls' = x_calls + 1
    /\ x_faults' = x_faults + PlannedFaults(plan)
    /\ UNCHANGED <<x_env, codec_vars, get_vars, engine_vars, counter_vars, stat_vars, snap_vars, open_vars, pure_vars, mem_vars, txn_vars, call_vars, listen_vars>>

AuthorizeLmdb ==
    /\ x_ctx # <<>>
    /\ x_ctx.adapter = "lmdb"
    /\ x_calls < MaxCalls
    /\ \E rq \in ContextRequests :
        LET called(use_db) ==
                \E plan \in Plans(x_ctx, MaxFaults - x_faults) :
                    Returned(lmdb_authorize_and_trace(x_ctx, use_db, plan), rq, plan)
        IN called(UseDb(Counted(x_ctx), x_env, ResourceUri, UserUri, rq))

AuthorizeMdbx ==
    /\ x_ctx # <<>>
    /\ x_ctx.adapter = "mdbx"
    /\ x_calls < MaxCalls
    /\ \E rq \in ContextRequests :
        LET called(use_db) ==
                \E plan \in Plans(x_ctx, MaxFaults - x_faults) :
                    Returned(authorize_and_trace_impl(x_ctx, use_db, plan), rq, plan)
        IN called(UseDb(Counted(x_ctx), x_env, ResourceUri, UserUri, rq))

AuthorizeLegacy ==
    /\ x_ctx # <<>>
    /\ x_ctx.adapter = "legacy"
    /\ x_calls < MaxCalls
    /\ \E rq \in ContextRequests :
        LET called(use_db) ==
                \E plan \in Plans(x_ctx, MaxFaults - x_faults) :
                    Returned(legacy_authorize_and_trace(x_ctx, use_db, plan), rq, plan)
        IN called(UseDb(Counted(x_ctx), x_env, ResourceUri, UserUri, rq))

Next ==
    \/ AuthorizeLmdb
    \/ AuthorizeMdbx
    \/ AuthorizeLegacy

Spec == ContextInit /\ [][Next]_vars

Called == x_last # <<>>

MatchingRecords ==
    {rec \in UNION {Range(PermissionRecords(
                        DbGet(e_in.store, PERMISSION_PREFIX \o e_st.o_groups[i], FALSE),
                        e_in.now)) : i \in 1..Len(e_st.o_groups)} :
        rec.id \in SubjectIds(e_st)}

\* the accumulator the filter is applied to
BeforeFilter == IF e_st.phase = "done" THEN e_st.prefilter ELSE e_st.granted

\* the written value of field f carries a date and the call is later than
\* that date plus one day
WrittenExpired(f) ==
    /\ e_in.written[f] # Absent
    /\ e_in.written[f][1].date # <<>>
    /\ e_in.now > TimeOf(e_in.written[f][1].date[1]) + TicksPerDay

(***************************************************************************)
(* C1.  The byte authorize returns, and the accumulator at every step,     *)
(* has no bit outside the requested access.                                *)
(***************************************************************************)
C1_WithinRequest ==
    e_st # <<>> => BitClear(e_st.granted, e_in.request_access) = 0

\* R requested of a record that offers R and U: R alone is returned
C1_Witness ==
    /\ EngineDone
    /\ e_in.request_access = 2
    /\ e_in.written.Pd = Undated(<<"g", ";", "R", "U", "X", ";", "h", ";", "P", ";">>)
    /\ e_st.granted = 2

C4_FilterSubtracts ==
    (EngineDone /\ e_in.written.Fd # Absent /\ ~WrittenExpired("Fd")) =>
        LET unfiltered == authorize(ResourceUri, UserUri, e_in.request_access,
                                    Without(e_in.store, KeyOfField.Fd), e_in.now)
        IN /\ BitClear(e_st.granted, unfiltered) = 0
           /\ e_st.granted =
                BitAnd(unfiltered, decode_filter(e_in.store[KeyOfField.Fd]).rec.access)

\* the filter took some of the granted bits and left others
C4_Witness ==
    /\ EngineDone
    /\ e_in.written.Fd # Absent
    /\ ~WrittenExpired("Fd")
    /\ e_st.granted # 0
    /\ e_st.granted # e_st.prefilter

(***************************************************************************)
(* C5.  A call made later than the validity date of a stored value plus    *)
(* one day returns what the same call returns on the store without that    *)
(* value.                                                                  *)
(***************************************************************************)
C5_ExpiredIsAbsent ==
    EngineDone =>
        \A f \in StoreFields :
            WrittenExpired(f) =>
                e_st.granted = authorize(ResourceUri, UserUri, e_in.request_access,
                                         Without(e_in.store, KeyOfField[f]), e_in.now)

\* the only rights of the user are in an expired value: nothing is granted
C5_Witness ==
    /\ EngineDone
    /\ WrittenExpired("Pd")
    /\ e_in.written.Ma = Absent
    /\ e_in.written.Md = Absent
    /\ e_in.request_access = 6
    /\ e_st.granted = 0

(***************************************************************************)
(* Counter runs: starting from an empty counter map, add calls of          *)
(* update_counters for one access bit, then remove calls for it, none      *)
(* with drop_count.  A call may carry a second bit besides the bit of the  *)
(* run; a remove call names in prev_access the bits it removes.            *)
(* Such a run may go on with calls with drop_count and with remove calls   *)
(* for the bit while its counter is 0.                                     *)
(***************************************************************************)
CounterBits == {2, 32}
\* the second bit a call may carry: none, or Update
OtherBits == {0, 4}
CallMasks == {BitOr(u_bit, other) : other \in OtherBits}

CountersInit ==
    /\ u_pc = "adding"
    /\ u_bit \in CounterBits
    /\ u_counters = EmptyMap
    /\ u_out = NoNum
    /\ u_adds = 0
    /\ u_removes = 0
    /\ CodecOff
    /\ GetOff
    /\ EngineOff
    /\ ContextOff
    /\ StatOff
    /\ SnapOff
    /\ OpenOff
    /\ PureOff
    /\ MemOff
    /\ TxnOff
    /\ CallOff
    /\ ListenOff

CounterCalled(r, pc) ==
    /\ u_counters' = r.counters
    /\ u_out' = r.out_access
    /\ u_pc' = pc
    /\ UNCHANGED <<u_bit, codec_vars, get_vars, engine_vars, context_vars, stat_vars, snap_vars, open_vars, pure_vars, mem_vars, txn_vars, call_vars, listen_vars>>

\* update_counters(counters, prev_access, cur_access, false, false)
CounterAdd ==
    /\ u_pc = "adding"
    /\ u_adds < MaxAdds
    /\ u_adds' = u_adds + 1
    /\ UNCHANGED u_removes
    /\ \E cur_access \in CallMasks, prev_access \in {0} \cup CallMasks :
        CounterCalled(update_counters(u_counters, prev_access, cur_access, FALSE, FALSE),
                      "adding")

\* update_counters(counters, prev_access, cur_access, true, false)
CounterRemove ==
    /\ u_pc \in {"adding", "removing"}
    /\ u_removes < u_adds
    /\ u_removes' = u_removes + 1
    /\ UNCHANGED u_adds
    /\ \E cur_access \in CallMasks, prev_access \in CallMasks :
        CounterCalled(update_counters(u_counters, prev_access, cur_access, TRUE, FALSE),
                      "removing")

\* the calls with drop_count and the removes at counter 0 of a run
MaxForced == 3

ForcedCalls == IF u_call = <<>> THEN 0 ELSE u_call.n

\* the call an action records in u_call
CounterCall(prev_access, cur_access, is_deleted, is_drop_count) ==
    [counters |-> u_counters, prev_access |-> prev_access, cur_access |-> cur_access,
     is_deleted |-> is_deleted, is_drop_count |-> is_drop_count, n |-> ForcedCalls + 1]

\* update_counters(counters, prev_access, cur_access, is_deleted, true) at any
\* point of a run
CounterDrop ==
    /\ u_pc \in {"adding", "removing", "dropped", "removed at zero"}
    /\ ForcedCalls < MaxForced
    /\ \E cur_access \in CallMasks, prev_access \in {0} \cup CallMasks, is_deleted \in BOOLEAN :
        LET called(r) ==
                /\ u_counters' = r.counters
                /\ u_out' = r.out_access
                /\ u_call' = CounterCall(prev_access, cur_access, is_deleted, TRUE)
        IN called(update_counters(u_counters, prev_access, cur_access, is_deleted, TRUE))
    /\ u_pc' = "dropped"
    /\ UNCHANGED <<u_bit, u_adds, u_removes, codec_vars, get_vars, engine_vars, context_vars, stat_vars, snap_vars, open_vars, pure_vars, mem_vars, txn_vars, listen_vars>>

\* update_counters(counters, prev_access, cur_access, true, false) for a bit
\* whose counter is 0: `*cc -= 1` wraps in a build without overflow checks and
\* panics in a build with them
CounterRemoveAtZero ==
    /\ u_pc \in {"adding", "removing", "dropped"}
    /\ ForcedCalls < MaxForced
    /\ access8_to_char(u_bit) \in DOMAIN u_counters
    /\ u_counters[access8_to_char(u_bit)] = 0
    /\ \E cur_access \in CallMasks, prev_access \in CallMasks :
        LET called(r) ==
                /\ u_call' = CounterCall(prev_access, cur_access, TRUE, FALSE)
                /\ \/ /\ u_counters' = r.counters
                      /\ u_out' = r.out_access
                      /\ u_pc' = "removed at zero"
                   \/ /\ CounterOverflows(u_counters, prev_access, cur_access, TRUE)
                      /\ u_pc' = "panicked"
                      /\ UNCHANGED <<u_counters, u_out>>
        IN called(update_counters(u_counters, prev_access, cur_access, TRUE, FALSE))
    /\ UNCHANGED <<u_bit, u_adds, u_removes, codec_vars, get_vars, engine_vars, context_vars, stat_vars, snap_vars, open_vars, pure_vars, mem_vars, txn_vars, listen_vars>>

CountersNext ==
    \/ CounterAdd
    \/ CounterRemove
    \/ CounterDrop
    \/ CounterRemoveAtZero

SpecCounters == CountersInit /\ [][CountersNext]_vars

MaxStatOps == 4

RECURSIVE Join(_, _)
\* [&str].join(sep)
Join(parts, sep) ==
    IF parts = <<>> THEN <<>>
    ELSE IF Len(parts) = 1 THEN parts[1]
    ELSE parts[1] \o sep \o Join(Tail(parts), sep)

\* variant: the entries are joined last in, first out
flush_message_lifo(impl, pub) ==
    LET rev == [i \in 1..Len(pub.message_buffer) |->
                    pub.message_buffer[Len(pub.message_buffer) + 1 - i]]
    IN pub.sender_id \o <<",">> \o ToDecString(pub.duration) \o <<",">>
       \o Join(rev, <<";">>)

\* combined_message and message_with_timestamp of flush
flush_message(impl, pub) ==
    IF impl = "az_impl"
    THEN pub.sender_id \o <<",">> \o Join(pub.message_buffer, <<";">>)
    ELSE pub.sender_id \o <<",">> \o ToDecString(pub.duration) \o <<",">>
         \o Join(pub.message_buffer, <<";">>)

\* whether flush reaches socket.send
flush_sends(impl, pub, flush_fault) ==
    /\ ~(~pub.is_connected /\ flush_fault = "connect")
    /\ ~(impl = "az_impl" /\ pub.message_buffer = <<>>)

\* the Result of flush
flush_ok(impl, pub, flush_fault) ==
    /\ ~(~pub.is_connected /\ flush_fault = "connect")
    /\ ~(flush_sends(impl, pub, flush_fault) /\ flush_fault = "send")

StatEntries == {<<"P", "d">>, <<"M", "a", "/", "C">>}
StatDurations == {0, 12}

StatInit ==
    /\ p_impl \in {"v-authorization-impl", "az_impl"}
    /\ p_pub \in {[is_connected |-> FALSE, message_buffer |-> <<>>, sender_id |-> id,
                   duration |-> 0] : id \in {<<"k", "7">>}}
    /\ p_sent = <<>>
    /\ p_since = <<>>
    /\ p_ops = 0
    /\ p_last = <<>>
    /\ CodecOff
    /\ GetOff
    /\ EngineOff
    /\ ContextOff
    /\ CountersOff
    /\ SnapOff
    /\ OpenOff
    /\ PureOff
    /\ MemOff
    /\ TxnOff
    /\ CallOff
    /\ ListenOff

\* the entries collected and not yet sent, in the order of the collect calls
StatLog == IF p_last = <<>> THEN <<>> ELSE p_last.log

\* what a call leaves in p_last: the call, its Result, the StatPub and the
\* number of messages sent before it, the entries not yet sent after it and
\* before it
StatCall(op, ok, log) ==
    [op |-> op, ok |-> ok, before |-> p_pub, sent_before |-> Len(p_sent), log |-> log,
     flushed |-> StatLog]

StatIdle == UNCHANGED <<p_impl, codec_vars, get_vars, engine_vars, context_vars, counter_vars, snap_vars, open_vars, pure_vars, mem_vars, txn_vars, call_vars, listen_vars>>

\* StatPub::collect
StatCollect ==
    /\ p_impl # "off"
    /\ p_ops < MaxStatOps
    /\ \E message \in StatEntries :
        /\ p_pub' = Buffered(p_pub, <<message>>)
        /\ p_since' = Append(p_since, message)
        /\ p_last' = StatCall("collect", TRUE, Append(StatLog, message))
    /\ p_ops' = p_ops + 1
    /\ UNCHANGED p_sent
    /\ StatIdle

\* StatPub::set_duration
StatSetDuration ==
    /\ p_impl = "v-authorization-impl"
    /\ p_ops < MaxStatOps
    /\ \E duration \in StatDurations :
        /\ p_pub.duration # duration
        /\ p_pub' = [p_pub EXCEPT !.duration = duration]
    /\ p_last' = StatCall("set_duration", TRUE, StatLog)
    /\ p_ops' = p_ops + 1
    /\ UNCHANGED <<p_sent, p_since>>
    /\ StatIdle

\* StatPub::flush
StatFlush ==
    /\ p_impl # "off"
    /\ p_ops < MaxStatOps
    /\ \E flush_fault \in {"", "connect", "send"} :
        /\ flush_fault = "connect" => ~p_pub.is_connected
        /\ flush_fault = "send" => flush_sends(p_impl, p_pub, flush_fault)
        /\ p_pub' = flush(p_pub, flush_fault)
        /\ p_sent' = IF flush_sends(p_impl, p_pub, flush_fault) /\ flush_fault # "send"
                     THEN Append(p_sent, flush_message(p_impl, p_pub))
                     ELSE p_sent
        /\ p_last' = StatCall("flush", flush_ok(p_impl, p_pub, flush_fault),
                               IF flush_ok(p_impl, p_pub, flush_fault) THEN <<>>
                               ELSE StatLog)
    /\ p_since' = <<>>
    /\ p_ops' = p_ops + 1
    /\ StatIdle

StatNext ==
    \/ StatCollect
    \/ StatSetDuration
    \/ StatFlush

SpecStat == StatInit /\ [][StatNext]_vars

(***************************************************************************)
(* C12.  After a flush that returned an error the message buffer is        *)
(* empty, and the buffer never holds more than the entries collected       *)
(* since the last flush call.                                              *)
(***************************************************************************)
C12_FlushErrorClears ==
    p_impl # "off" =>
        /\ (p_last # <<>> /\ p_last.op = "flush" /\ ~p_last.ok) =>
                p_pub.message_buffer = <<>>
        /\ Len(p_pub.message_buffer) <= Len(p_since)

(***************************************************************************)
(* C20.  A flush of the StatPub of v-authorization-impl that returns Ok    *)
(* has sent exactly one message; split at "," the message is the sender    *)
(* id, the decimal microseconds of the duration last set and the entries;  *)
(* split at ";" the entries are those collected and not yet sent, in the   *)
(* order of the collect calls; the buffer is empty afterwards.             *)
(***************************************************************************)
C20_FlushMessage ==
    (p_impl = "v-authorization-impl" /\ p_last # <<>> /\ p_last.op = "flush" /\ p_last.ok) =>
        /\ Len(p_sent) = p_last.sent_before + 1
        /\ LET fields == Split(p_sent[Len(p_sent)], ",")
           IN /\ Len(fields) = 3
              /\ fields[1] = p_last.before.sender_id
              /\ fields[2] = ToDecString(p_last.before.duration)
              /\ IF p_last.flushed = <<>> THEN fields[3] = <<>>
                 ELSE Split(fields[3], ";") = p_last.flushed
        /\ p_pub.message_buffer = <<>>

\* two different entries and a duration of two digits were sent
C20_Witness ==
    /\ p_impl = "v-authorization-impl"
    /\ p_last # <<>>
    /\ p_last.op = "flush"
    /\ p_last.ok
    /\ Len(p_last.flushed) = 2
    /\ p_last.flushed[1] # p_last.flushed[2]
    /\ p_last.before.duration > 9

MaxCommits == 2

\* the store after n commits: the writer revokes the rights, then grants
\* them again
StoreAt(n) == IF n % 2 = 0 THEN StoreOf(GroupRights) ELSE StoreOf(NoRights)

\* the request of the run: every permit bit
SnapRequest == PermitBits(255)

SnapInit ==
    /\ t_pc = "idle"
    /\ t_adapter \in Adapters
    /\ t_commits = 0
    /\ t_txn = NoNum
    /\ t_st = <<>>
    /\ t_reads = <<>>
    /\ CodecOff
    /\ GetOff
    /\ EngineOff
    /\ ContextOff
    /\ CountersOff
    /\ StatOff
    /\ OpenOff
    /\ PureOff
    /\ MemOff
    /\ TxnOff
    /\ CallOff
    /\ ListenOff

SnapIdle ==
    UNCHANGED <<t_adapter, codec_vars, get_vars, engine_vars, context_vars, counter_vars, stat_vars, open_vars, pure_vars, mem_vars, txn_vars, call_vars, listen_vars>>

\* the commit a read of the run reads at
ReadsAt == IF t_adapter = "mdbx" THEN t_commits ELSE t_txn

\* authorize_use_db up to the call of the engine: env.read_txn() /
\* env.get_reader() of the two LMDB contexts; the MDBX context opens nothing
SnapBegin ==
    /\ t_pc = "idle"
    /\ t_pc' = "running"
    /\ t_txn' = t_commits
    /\ t_st' = EngineStart(UserUri, ResourceUri, SnapRequest)
    /\ UNCHANGED <<t_commits, t_reads>>
    /\ SnapIdle

\* one Storage::get of the run and what the engine does with the value
SnapGet ==
    /\ t_pc = "running"
    /\ t_st.phase # "done"
    /\ LET read(key, g) ==
            /\ t_st' = EngineApply(t_st, g.res, SnapRequest,
                                   TimeOf(ValidUntil) + TicksPerDay)
            /\ t_reads' = Append(t_reads, [key |-> key, res |-> g.res, at |-> ReadsAt])
       IN read(EngineKey(t_st, ResourceUri),
               storage_get(t_adapter, <<>>, <<>>, StoreAt(ReadsAt),
                           EngineKey(t_st, ResourceUri), FALSE, FALSE, "NoStat"))
    /\ UNCHANGED <<t_pc, t_commits, t_txn>>
    /\ SnapIdle

\* the engine returns; the read transaction is dropped
SnapEnd ==
    /\ t_pc = "running"
    /\ t_st.phase = "done"
    /\ t_pc' = "done"
    /\ UNCHANGED <<t_commits, t_txn, t_st, t_reads>>
    /\ SnapIdle

\* a commit of the writer process
SnapCommit ==
    /\ t_pc \in {"idle", "running"}
    /\ t_commits < MaxCommits
    /\ t_commits' = t_commits + 1
    /\ UNCHANGED <<t_pc, t_txn, t_st, t_reads>>
    /\ SnapIdle

SnapNext ==
    \/ SnapBegin
    \/ SnapGet
    \/ SnapEnd
    \/ SnapCommit

SpecSnapshot == SnapInit /\ [][SnapNext]_vars

(***************************************************************************)
(* C14.  Every get of a run reads the value its key had in the primary     *)
(* store when the run began, whatever the writer committed since.          *)
(***************************************************************************)
C14_SingleSnapshot ==
    t_pc \in {"running", "done"} =>
        \A i \in 1..Len(t_reads) :
            t_reads[i].res = DbGet(StoreAt(t_txn), t_reads[i].key, FALSE)

(***************************************************************************)
(* Construction runs: threads of one process construct contexts of one     *)
(* adapter.  open of az_mdbx holds the Mutex of GLOBAL_DB from the test    *)
(* of the Option to the store of the new Arc; open of az_lmdb (heed) goes  *)
(* through GLOBAL_ENV.get_or_init, which runs its closure in one thread    *)
(* while it blocks the others and is passed without blocking once the      *)
(* cell is set.  An attempt to open fails while the file is missing.       *)
(* Handles are numbered in the order they are opened.                      *)
(***************************************************************************)
NumThreads == 2
\* the failed attempts to open the database
MaxOpenFails == 1
\* the calls of reset_global_envs
MaxResets == 1

Threads == 1..NumThreads

\* variant: the test and the store are not guarded
may_enter_unguarded(holder) == TRUE

\* GLOBAL_DB.lock() returns, and the closure of get_or_init is entered,
\* while no other thread is inside
may_enter(holder) == holder = 0

OpenInit ==
    /\ o_impl \in {"lmdb", "mdbx"}
    /\ o_pc = [t \in Threads |-> "start"]
    /\ o_holder = 0
    /\ o_global = 0
    /\ o_ctx = [t \in Threads |-> <<>>]
    /\ o_opens = 0
    /\ o_fails = 0
    /\ o_resets = 0
    /\ CodecOff
    /\ GetOff
    /\ EngineOff
    /\ ContextOff
    /\ CountersOff
    /\ StatOff
    /\ SnapOff
    /\ PureOff
    /\ MemOff
    /\ TxnOff
    /\ CallOff
    /\ ListenOff

OpenIdle == UNCHANGED <<o_impl, codec_vars, get_vars, engine_vars, context_vars, counter_vars, stat_vars, snap_vars, pure_vars, mem_vars, txn_vars, call_vars, listen_vars>>

\* the context of thread t is built over handle h
Constructed(t, h) ==
    /\ o_ctx' = [o_ctx EXCEPT ![t] = <<[db |-> h, epoch |-> o_resets]>>]
    /\ o_pc' = [o_pc EXCEPT ![t] = "done"]

\* az_lmdb: get_or_init on a cell that is set
OpenGet(t) ==
    /\ o_impl = "lmdb"
    /\ o_pc[t] = "start"
    /\ o_global # 0
    /\ Constructed(t, o_global)
    /\ UNCHANGED <<o_holder, o_global, o_opens, o_fails, o_resets>>
    /\ OpenIdle

\* az_mdbx: GLOBAL_DB.lock(); az_lmdb: the closure of get_or_init is entered
OpenEnter(t) ==
    /\ o_impl # "off"
    /\ o_pc[t] = "start"
    /\ o_impl = "lmdb" => o_global = 0
    /\ may_enter(o_holder)
    /\ o_holder' = t
    /\ o_pc' = [o_pc EXCEPT ![t] = IF o_impl = "mdbx" THEN "locked" ELSE "opening"]
    /\ UNCHANGED <<o_global, o_ctx, o_opens, o_fails, o_resets>>
    /\ OpenIdle

\* az_mdbx: `if let Some(existing_db) = db_lock.as_ref()`
OpenTest(t) ==
    /\ o_pc[t] = "locked"
    /\ IF o_global # 0
       THEN /\ Constructed(t, o_global)
            /\ o_holder' = 0
       ELSE /\ o_pc' = [o_pc EXCEPT ![t] = "opening"]
            /\ UNCHANGED <<o_ctx, o_holder>>
    /\ UNCHANGED <<o_global, o_opens, o_fails, o_resets>>
    /\ OpenIdle

\* one turn of the loop: the path does not exist or the open fails, then
\* the thread sleeps and tries again
OpenFail(t) ==
    /\ o_pc[t] = "opening"
    /\ o_fails < MaxOpenFails
    /\ o_fails' = o_fails + 1
    /\ UNCHANGED <<o_pc, o_holder, o_global, o_ctx, o_opens, o_resets>>
    /\ OpenIdle

\* the open succeeds: the Arc is stored and cloned
OpenDone(t) ==
    /\ o_pc[t] = "opening"
    /\ o_opens' = o_opens + 1
    /\ o_global' = o_opens + 1
    /\ Constructed(t, o_opens + 1)
    /\ o_holder' = 0
    /\ UNCHANGED <<o_fails, o_resets>>
    /\ OpenIdle

\* az_mdbx::reset_global_envs
OpenReset ==
    /\ o_impl = "mdbx"
    /\ o_resets < MaxResets
    /\ may_enter(o_holder)
    /\ o_global' = 0
    /\ o_resets' = o_resets + 1
    /\ UNCHANGED <<o_pc, o_holder, o_ctx, o_opens, o_fails>>
    /\ OpenIdle

\* a thread constructs one more context
OpenAgain(t) ==
    /\ o_pc[t] = "done"
    /\ o_pc' = [o_pc EXCEPT ![t] = "start"]
    /\ UNCHANGED <<o_holder, o_global, o_ctx, o_opens, o_fails, o_resets>>
    /\ OpenIdle

OpenNext ==
    \E t \in Threads :
        \/ OpenGet(t)
        \/ OpenEnter(t)
        \/ OpenTest(t)
        \/ OpenFail(t)
        \/ OpenDone(t)
        \/ OpenReset
        \/ OpenAgain(t)

SpecOpen == OpenInit /\ [][OpenNext]_vars

(***************************************************************************)
(* C15.  Whatever the interleaving of the constructions, the primary       *)
(* environment is opened at most once before reset_global_envs is called   *)
(* (and once more after each call), and the contexts constructed between   *)
(* two resets hold the same handle, the shared one.                        *)
(***************************************************************************)
C15_InitOnce ==
    o_impl # "off" =>
        /\ o_opens <= o_resets + 1
        /\ \A t1 \in Threads, t2 \in Threads :
            (o_ctx[t1] # <<>> /\ o_ctx[t2] # <<>>
             /\ o_ctx[t1][1].epoch = o_ctx[t2][1].epoch) =>
                o_ctx[t1][1].db = o_ctx[t2][1].db
        /\ \A t \in Threads :
            (o_ctx[t] # <<>> /\ o_ctx[t][1].epoch = o_resets /\ o_global # 0) =>
                o_ctx[t][1].db = o_global

\* two threads were inside open together and both hold the one handle
C15_Witness ==
    /\ o_impl # "off"
    /\ o_opens = 1
    /\ o_resets = 0
    /\ o_fails > 0
    /\ \A t \in Threads : o_ctx[t] # <<>> /\ o_ctx[t][1].db = o_global

\* ---------------------------------------------------------------------------
\* Cycle protection of the traversal
\* ---------------------------------------------------------------------------

NoRepeat(seq) == \A i, j \in 1..Len(seq) : seq[i] = seq[j] => i = j

\* the ids expanded so far on each side are a prefix of the side's queue
ExpandedOnce(st) ==
    /\ NoRepeat([i \in 1..Len(st.s_groups) |-> st.s_groups[i].id])
    /\ NoRepeat(st.o_groups)
    /\ st.s_next <= Len(st.s_groups) + 1
    /\ st.o_next <= Len(st.o_groups) + 1
    /\ st.p_next <= Len(st.o_groups) + 1

\* the reads a call has made, and the most it can make over its queues: one
\* expansion per queued id on each side and one rights lookup per resource id
ReadsMade(st) == (st.s_next - 1) + (st.o_next - 1) + (st.p_next - 1)
ReadsBound(st) == Len(st.s_groups) + 2 * Len(st.o_groups)

\* a call that has not ended is in a phase that reads, with its next key inside
\* the queue
NextReadDefined(st) ==
    \/ st.phase = "expand_subject" /\ st.s_next <= Len(st.s_groups)
    \/ st.phase = "expand_object" /\ st.o_next <= Len(st.o_groups)
    \/ st.phase = "permissions" /\ st.p_next <= Len(st.o_groups)
    \/ st.phase \in {"filter", "done"}

\* C16: on each side of the traversal every id is queued, hence expanded, at
\* most once, also when the memberships form a cycle; the reads of a call stay
\* within one per queued id and a call that has not ended always has a next
\* read to take, so the call ends
C16_CycleProtection ==
    e_st # <<>> =>
        /\ ExpandedOnce(e_st)
        /\ ReadsMade(e_st) <= ReadsBound(e_st)
        /\ NextReadDefined(e_st)

\* a finished call over a store with a cycle on both sides, every id of both
\* sides expanded: a, g (which leads back to a) and h; d and s (which leads
\* back to d)
C16_Witness ==
    /\ EngineDone
    /\ e_in.written.Mg # Absent
    /\ e_in.written.Ms # Absent
    /\ Len(e_st.s_groups) = 3 /\ e_st.s_next = 4
    /\ Len(e_st.o_groups) = 2 /\ e_st.o_next = 3

\* ---------------------------------------------------------------------------
\* Repeated calls on an unchanged store
\* ---------------------------------------------------------------------------

\* the last call met no failure of the storage
NoStorageFault ==
    /\ x_last.reopen = ""
    /\ \A i \in 1..Len(x_last.runs) : x_last.runs[i].kind = "ok"

\* C17: on an unchanged store a call of a context returns the byte every
\* earlier call of that context with the same request returned, whatever the
\* read counter and the statistics buffer were when it started; a call that
\* met no storage failure returns a byte
C17_Idempotent ==
    Called =>
        /\ NoStorageFault => x_last.res.kind = "ok"
        /\ \A e \in x_last.earlier :
            (e.request_access = x_last.request_access /\ x_last.res.kind = "ok")
                => x_last.res.val = e.val

\* a second call with the request of the first, started with the counter off
\* zero (it did not leave the counter at 1) and with entries left in the
\* buffer, returning the same non-zero byte
C17_Witness ==
    /\ Called
    /\ x_ctx.max_authorize_counter > 1
    /\ x_ctx.authorize_counter # 1
    /\ x_last.buffered
    /\ x_last.res.kind = "ok"
    /\ x_last.res.val # 0
    /\ [request_access |-> x_last.request_access, val |-> x_last.res.val] \in x_last.earlier

\* ---------------------------------------------------------------------------
\* Statistics entries of Storage::get
\* ---------------------------------------------------------------------------

\* the entry is the key followed by a suffix
EntryOf(entry, key) == Len(entry) >= Len(key) /\ SubSeq(entry, 1, Len(key)) = key

Recorded == g_pc = "returned" /\ g_ret.msgs # <<>>

(***************************************************************************)
(* C19, as stated.  The entry of a served key is the bare key when no      *)
(* cache is configured, key "/C" when the cache served it and key "/cB"    *)
(* when the cache missed and the primary served it.                        *)
(***************************************************************************)
C19_EntryBareKey ==
    Recorded =>
        g_ret.msgs[1] =
            IF g_storage.cache_db = <<>> THEN g_call.key
            ELSE IF g_ret.primary_read THEN g_call.key \o <<"/", "c", "B">>
            ELSE g_call.key \o <<"/", "C">>

(***************************************************************************)
(* C19, amended.  The entry of a served key is key "/B" when no cache is   *)
(* configured, key "/C" when the cache served it and key "/cB" when the    *)
(* cache missed and the primary served it; the bare key is never recorded. *)
(***************************************************************************)
C19_EntrySuffix ==
    Recorded =>
        g_ret.msgs[1] =
            IF g_storage.cache_db = <<>> THEN g_call.key \o <<"/", "B">>
            ELSE IF g_ret.primary_read THEN g_call.key \o <<"/", "c", "B">>
            ELSE g_call.key \o <<"/", "C">>

\* a key served by the primary of a storage without a cache, recorded with
\* the suffix "/B"
C19_Witness ==
    /\ Recorded
    /\ g_storage.cache_db = <<>>
    /\ g_ret.msgs[1] = g_call.key \o <<"/", "B">>

\* ---------------------------------------------------------------------------
\* Statistics modes
\* ---------------------------------------------------------------------------

\* what a get of the call is served: the cache first, then the primary
ValueServed(ctx, env, key) ==
    IF ctx.use_cache /\ key \in DOMAIN env.cache THEN DbGet(env.cache, key, FALSE)
    ELSE DbGet(env.db, key, FALSE)

RECURSIVE ServedKeys(_, _, _, _)
\* the keys a run without failure is served a value for, in the order of its
\* reads
ServedKeys(st, ctx, env, request_access) ==
    IF st.phase = "done" THEN <<>>
    ELSE LET served(r) ==
                (IF r.kind = "some" THEN <<EngineKey(st, ResourceUri)>> ELSE <<>>)
                \o ServedKeys(EngineApply(st, r, request_access, env.now), ctx, env,
                              request_access)
         IN served(ValueServed(ctx, env, EngineKey(st, ResourceUri)))

\* the last entries of the buffer are the entries of the keys, in order
EndsWithEntriesOf(buffer, keys) ==
    /\ Len(buffer) >= Len(keys)
    /\ \A i \in 1..Len(keys) : EntryOf(buffer[Len(buffer) - Len(keys) + i], keys[i])

\* the run that decided the last call was served these keys
LastServed ==
    ServedKeys(EngineStart(UserUri, ResourceUri, x_last.request_access), x_ctx, x_env,
               x_last.request_access)

\* C21: the statistics mode fixes what is collected.  In Full the entry of
\* every key served to the deciding run is in the buffer when the call ends
\* its run (a call of one run adds nothing else), and a flush that succeeds
\* sends the whole buffer and empties it.  In Minimal no key is collected and
\* a flush that succeeds sends one message without entries.  In None, and
\* without a collector, nothing is collected and set_duration and flush are
\* not called.
C21_ModeFixesCollection ==
    Called =>
        /\ x_ctx.stat_mode \in {"None", "NoStat"} =>
            /\ x_last.stat_calls = <<>>
            /\ x_last.collected = <<>>
            /\ x_last.sent = <<>>
            /\ ~x_ctx.is_connected
        /\ x_ctx.stat_mode = "Minimal" =>
            /\ x_last.stat_calls = <<"set_duration", "flush">>
            /\ x_last.collected = <<>>
            /\ (x_last.flush = "" /\ x_ctx.adapter # "legacy") => x_last.sent = <<<<>>>>
        /\ x_ctx.stat_mode = "Full" =>
            /\ x_last.stat_calls = <<"set_duration", "flush">>
            /\ x_last.res.kind = "ok" =>
                /\ EndsWithEntriesOf(x_last.collected, LastServed)
                /\ Len(x_last.collected) >= Len(x_last.before) + Len(LastServed)
                /\ Len(x_last.runs) = 1 =>
                    Len(x_last.collected) = Len(x_last.before) + Len(LastServed)
            /\ (x_last.flush = "" /\ x_last.collected # <<>>) =>
                /\ x_last.sent = <<x_last.collected>>
                /\ x_ctx.message_buffer = <<>>

\* a call in Full mode whose run was served several keys, all of them sent
\* by the flush
C21_Witness ==
    /\ Called
    /\ x_ctx.stat_mode = "Full"
    /\ x_last.res.kind = "ok"
    /\ Len(LastServed) >= 2
    /\ x_last.sent = <<x_last.collected>>
    /\ Len(x_last.collected) = Len(LastServed)

\* a call in Minimal mode: one message without entries
C21_WitnessMinimal ==
    /\ Called
    /\ x_ctx.stat_mode = "Minimal"
    /\ x_last.sent = <<<<>>>>

(***************************************************************************)
(* Function runs: one call of a function of the library on an argument     *)
(* drawn from a bounded set.                                               *)
(***************************************************************************)
\* the longest filter text after its date prefix
MaxFilterLen == 3

FilterAlphabet == {"d", ";", "R", "X", ",", "T"}

\* the filter texts: every text over the alphabet up to the bound, bare and
\* behind a date prefix
FilterTexts ==
    LET bodies == UNION {[1..n -> FilterAlphabet] : n \in 0..MaxFilterLen}
    IN bodies \cup {FormatDate(ValidUntil) \o <<",">> \o b : b \in bodies}

FilterInit ==
    /\ f_pc = "input"
    /\ f_arg \in FilterTexts
    /\ f_ret = <<>>
    /\ CodecOff
    /\ GetOff
    /\ EngineOff
    /\ ContextOff
    /\ CountersOff
    /\ StatOff
    /\ SnapOff
    /\ OpenOff
    /\ MemOff
    /\ TxnOff
    /\ CallOff
    /\ ListenOff

FilterDecode ==
    /\ f_pc = "input"
    /\ f_ret' = decode_filter(f_arg)
    /\ f_pc' = "returned"
    /\ UNCHANGED <<f_arg, codec_vars, get_vars, engine_vars, context_vars, counter_vars, stat_vars, snap_vars, open_vars, mem_vars, txn_vars, call_vars, listen_vars>>

FilterNext == FilterDecode

SpecFilter == FilterInit /\ [][FilterNext]_vars

\* the filter text behind its date prefix
FilterBody == extract_date(f_arg).rest

\* no id/value pair decodes from the filter text
NoPairDecodes == decode_rec_to_rights(FilterBody).recs = <<>>

(***************************************************************************)
(* C22, as stated.  When no id/value pair decodes from the filter string,  *)
(* the returned record has access 0 and its id is the raw filter string    *)
(* (taken here with or without its date prefix).                           *)
(***************************************************************************)
C22_RawStringId ==
    (f_pc = "returned" /\ NoPairDecodes) =>
        /\ f_ret.rec.access = 0
        /\ f_ret.rec.id \in {f_arg, FilterBody}

(***************************************************************************)
(* C22, amended.  decode_filter returns a record for every input.  When    *)
(* the text behind the date prefix is shorter than three bytes the record  *)
(* has access 0 and an empty id, whatever the text holds; otherwise, when  *)
(* no id/value pair decodes from it, the record has access 0 and its id is *)
(* the text without the date prefix; otherwise the record is the first     *)
(* pair.                                                                   *)
(***************************************************************************)
C22_FilterRecord ==
    f_pc = "returned" =>
        /\ f_ret.date = extract_date(f_arg).date
        /\ Len(FilterBody) < 3 => (f_ret.rec.access = 0 /\ f_ret.rec.id = <<>>)
        /\ (Len(FilterBody) >= 3 /\ NoPairDecodes) =>
            (f_ret.rec.access = 0 /\ f_ret.rec.id = FilterBody)
        /\ (Len(FilterBody) >= 3 /\ ~NoPairDecodes) =>
            /\ f_ret.rec.id = decode_rec_to_rights(FilterBody).recs[1].id
            /\ f_ret.rec.access = decode_rec_to_rights(FilterBody).recs[1].access

\* a dated text of three bytes from which no pair decodes: the id is the text
\* without the date prefix
C22_Witness ==
    /\ f_pc = "returned"
    /\ f_arg # FilterBody
    /\ Len(FilterBody) = 3
    /\ NoPairDecodes
    /\ f_ret.rec.id = FilterBody
    /\ f_ret.rec.access = 0

\* a text of one byte: the id is empty
C22_WitnessShort ==
    /\ f_pc = "returned"
    /\ f_arg = <<"X">>
    /\ f_ret.rec.id = <<>>

\* ---------------------------------------------------------------------------
\* Deleted records in encode_record
\* ---------------------------------------------------------------------------

\* the keys of the records of the input that are not deleted, in the order of
\* the iteration
LiveKeyOrder == SelectSeq(c_in.key_order, LAMBDA k : ~c_in.rights[k].is_deleted)
DeletedKeys == {k \in DOMAIN c_in.rights : c_in.rights[k].is_deleted}

\* the text of the set without its deleted records
LiveText ==
    encode_record(c_in.date, [k \in DOMAIN c_in.rights \ DeletedKeys |-> c_in.rights[k]],
                  LiveKeyOrder, c_in.version, c_in.reversed)

\* the ids of the text: the tokens at the odd positions behind the date prefix
TextIds ==
    LET tokens == Split(extract_date(c_text).rest, ";")
    IN {tokens[i] : i \in {j \in 1..Len(tokens) : j % 2 = 1 /\ j < Len(tokens)}}

\* C23: encode_record emits no record whose is_deleted flag is set: the text
\* is the text of the set without them and names none of their ids; when no
\* record remains the text is the optional date prefix followed by "X", and
\* decoding it succeeds with zero records
C23_DeletedNotEmitted ==
    /\ c_pc \in {"encoded", "decoded"} =>
        /\ c_text = LiveText
        /\ TextIds \cap DeletedKeys = {}
        /\ LiveKeyOrder = <<>> =>
            c_text = (IF c_in.date # <<>> THEN FormatDate(c_in.date[1]) \o <<",">>
                      ELSE <<>>) \o <<"X">>
    /\ c_pc = "decoded" =>
        /\ DOMAIN c_out.set \cap DeletedKeys = {}
        /\ LiveKeyOrder = <<>> => (c_out.ok /\ c_out.set = EmptyMap)

\* a dated set of two records, both deleted: the text is the date prefix and
\* "X", decoded to zero records
C23_Witness ==
    /\ c_pc = "decoded"
    /\ c_in.date # <<>>
    /\ Cardinality(DeletedKeys) = 2
    /\ LiveKeyOrder = <<>>
    /\ c_text = FormatDate(c_in.date[1]) \o <<",", "X">>
    /\ c_out.ok
    /\ c_out.set = EmptyMap

\* a set of which one record is deleted and the other is emitted
C23_WitnessMixed ==
    /\ c_pc = "decoded"
    /\ Cardinality(DeletedKeys) = 1
    /\ Len(LiveKeyOrder) = 1
    /\ DOMAIN c_out.set = {LiveKeyOrder[1]}

(***************************************************************************)
(* Construction of the adapters' contexts from a configuration:            *)
(* LmdbAzContext::new_with_config and MdbxAzContext::new_with_config.      *)
(***************************************************************************)
UpperLetters == <<"A", "B", "C", "D", "E", "F", "G", "H", "I", "J", "K", "L", "M",
                  "N", "O", "P", "Q", "R", "S", "T", "U", "V", "W", "X", "Y", "Z">>
LowerLetters == <<"a", "b", "c", "d", "e", "f", "g", "h", "i", "j", "k", "l", "m",
                  "n", "o", "p", "q", "r", "s", "t", "u", "v", "w", "x", "y", "z">>

\* str::to_lowercase over ASCII text
to_lowercase(v) ==
    [i \in 1..Len(v) |->
        IF \E k \in 1..Len(UpperLetters) : UpperLetters[k] = v[i]
        THEN LowerLetters[CHOOSE k \in 1..Len(UpperLetters) : UpperLetters[k] = v[i]]
        ELSE v[i]]

\* an Option<String> argument
AbsentStr == [some |-> FALSE, v |-> <<>>]
SomeStr(v) == [some |-> TRUE, v |-> v]

\* stat_manager::parse_stat_mode
parse_stat_mode(stat_mode_str) ==
    IF stat_mode_str.some
    THEN LET v == to_lowercase(stat_mode_str.v)
         IN  IF v = <<"f", "u", "l", "l">> THEN "Full"
             ELSE IF v = <<"m", "i", "n", "i", "m", "a", "l">> THEN "Minimal"
             ELSE IF v = <<"o", "f", "f">> THEN "None"
             ELSE IF v = <<"n", "o", "n", "e">> THEN "None"
             ELSE "None"
    ELSE "None"

\* the match written out in LmdbAzContext::new_with_config
lmdb_stat_mode(stat_mode_str) ==
    IF stat_mode_str.some
    THEN LET v == to_lowercase(stat_mode_str.v)
         IN  IF v = <<"f", "u", "l", "l">> THEN "Full"
             ELSE IF v = <<"m", "i", "n", "i", "m", "a", "l">> THEN "Minimal"
             ELSE IF v = <<"o", "f", "f">> THEN "None"
             ELSE IF v = <<"n", "o", "n", "e">> THEN "None"
             ELSE "Full"
    ELSE "Full"

\* open(..): the context has a Stat only when a collector url is given and
\* StatPub::new succeeds on it; the Stat carries the selected mode
open_stat(stat_collector_url, stat_mode) ==
    IF stat_collector_url = "good" THEN stat_mode ELSE "NoStat"

lmdb_new_with_config(cfg) == open_stat(cfg.stat_collector_url, lmdb_stat_mode(cfg.stat_mode_str))
mdbx_new_with_config(cfg) == open_stat(cfg.stat_collector_url, parse_stat_mode(cfg.stat_mode_str))

\* every way of writing a word in upper and lower case letters
RECURSIVE CaseVariants(_)
CaseVariants(w) ==
    IF w = <<>> THEN {<<>>}
    ELSE LET c == w[1]
             k == CHOOSE j \in 1..Len(LowerLetters) : LowerLetters[j] = c
         IN  {<<x>> \o t : x \in {c, UpperLetters[k]}, t \in CaseVariants(Tail(w))}

StatModeWords ==
    CaseVariants(<<"f", "u", "l", "l">>) \cup CaseVariants(<<"o", "f", "f">>)
        \cup CaseVariants(<<"n", "o", "n", "e">>)
        \cup {<<"m", "i", "n", "i", "m", "a", "l">>, <<"M", "i", "n", "i", "m", "a", "l">>,
              <<"M", "I", "N", "I", "M", "A", "L">>}

UnrecognisedWords ==
    {<<>>, <<"f", "u", "l">>, <<"f", "u", "l", "l", " ">>, <<"o", "n">>, <<"m", "i", "n">>,
     <<"d", "e", "b", "u", "g">>, <<"0">>}

StatModeArgs == {AbsentStr} \cup {SomeStr(w) : w \in StatModeWords \cup UnrecognisedWords}

\* no collector url, a url StatPub::new fails on, a url it accepts
CollectorUrls == {"absent", "bad", "good"}

ConfigInit ==
    /\ f_pc = "config"
    /\ f_arg \in [stat_collector_url : CollectorUrls, stat_mode_str : StatModeArgs]
    /\ f_ret = [lmdb |-> "unset", mdbx |-> "unset"]
    /\ CodecOff
    /\ GetOff
    /\ EngineOff
    /\ ContextOff
    /\ CountersOff
    /\ StatOff
    /\ SnapOff
    /\ OpenOff
    /\ MemOff
    /\ TxnOff
    /\ CallOff
    /\ ListenOff

LmdbNewWithConfig ==
    /\ f_pc = "config"
    /\ f_ret.lmdb = "unset"
    /\ f_ret' = [f_ret EXCEPT !.lmdb = lmdb_new_with_config(f_arg)]
    /\ UNCHANGED <<f_pc, f_arg, codec_vars, get_vars, engine_vars, context_vars, counter_vars, stat_vars, snap_vars, open_vars, mem_vars, txn_vars, call_vars, listen_vars>>

MdbxNewWithConfig ==
    /\ f_pc = "config"
    /\ f_ret.mdbx = "unset"
    /\ f_ret' = [f_ret EXCEPT !.mdbx = mdbx_new_with_config(f_arg)]
    /\ UNCHANGED <<f_pc, f_arg, codec_vars, get_vars, engine_vars, context_vars, counter_vars, stat_vars, snap_vars, open_vars, mem_vars, txn_vars, call_vars, listen_vars>>

ConfigNext == LmdbNewWithConfig \/ MdbxNewWithConfig

SpecConfig == ConfigInit /\ [][ConfigNext]_vars

BothConstructed == f_pc = "config" /\ f_ret.lmdb # "unset" /\ f_ret.mdbx # "unset"

(***************************************************************************)
(* C24.  For every stat_mode argument (absent, "full", "minimal", "off",  *)
(* "none", an unrecognised string) LmdbAzContext::new_with_config and      *)
(* MdbxAzContext::new_with_config select the same statistics mode, and an  *)
(* absent stat_mode selects None.                                          *)
(***************************************************************************)
C24_SameMode ==
    (BothConstructed /\ f_arg.stat_collector_url = "good") =>
        /\ f_ret.lmdb = f_ret.mdbx
        /\ (~f_arg.stat_mode_str.some => f_ret.lmdb = "None" /\ f_ret.mdbx = "None")

\* what the two constructors agree on: the four recognised words, in any case
RecognisedModesAgree ==
    (BothConstructed /\ f_arg.stat_mode_str.some
        /\ to_lowercase(f_arg.stat_mode_str.v) \in
              {<<"f", "u", "l", "l">>, <<"m", "i", "n", "i", "m", "a", "l">>,
               <<"o", "f", "f">>, <<"n", "o", "n", "e">>})
        => f_ret.lmdb = f_ret.mdbx

(***************************************************************************)
(* v_api::common_type::ResultCode: the variants with their discriminants   *)
(* (#[repr(u16)]), the cast `c as i64` and ResultCode::from_i64.           *)
(***************************************************************************)
ResultCode ==
    <<[name |-> "Zero", code |-> 0], [name |-> "Ok", code |-> 200],
      [name |-> "Created", code |-> 201], [name |-> "NoContent", code |-> 204],
      [name |-> "BadRequest", code |-> 400], [name |-> "Forbidden", code |-> 403],
      [name |-> "NotFound", code |-> 404], [name |-> "UnprocessableEntity", code |-> 422],
      [name |-> "Locked", code |-> 423], [name |-> "TooManyRequests", code |-> 429],
      [name |-> "TooManyRequestsChangePassword", code |-> 430],
      [name |-> "ChangePasswordForbidden", code |-> 463],
      [name |-> "SecretExpired", code |-> 464], [name |-> "EmptyPassword", code |-> 465],
      [name |-> "NewPasswordIsEqualToOld", code |-> 466],
      [name |-> "InvalidPassword", code |-> 467], [name |-> "InvalidSecret", code |-> 468],
      [name |-> "PasswordExpired", code |-> 469], [name |-> "TicketNotFound", code |-> 470],
      [name |-> "TicketExpired", code |-> 471], [name |-> "NotAuthorized", code |-> 472],
      [name |-> "AuthenticationFailed", code |-> 473], [name |-> "NotReady", code |-> 474],
      [name |-> "FailOpenTransaction", code |-> 475], [name |-> "FailCommit", code |-> 476],
      [name |-> "FailStore", code |-> 477], [name |-> "InternalServerError", code |-> 500],
      [name |-> "NotImplemented", code |-> 501], [name |-> "ServiceUnavailable", code |-> 503],
      [name |-> "InvalidIdentifier", code |-> 904],
      [name |-> "DatabaseModifiedError", code |-> 999], [name |-> "DiskFull", code |-> 1021],
      [name |-> "DuplicateKey", code |-> 1022], [name |-> "SizeTooLarge", code |-> 1118],
      [name |-> "ConnectError", code |-> 4000]>>

ResultCodeVariants == {ResultCode[i].name : i \in 1..Len(ResultCode)}

\* `c as i64`
ResultCodeAsI64(c) == ResultCode[CHOOSE i \in 1..Len(ResultCode) : ResultCode[i].name = c].code

\* the arms of the match in ResultCode::from_i64, in their order
FromI64Arms ==
    <<[value |-> 0, res |-> "Zero"], [value |-> 200, res |-> "Ok"],
      [value |-> 201, res |-> "Created"], [value |-> 204, res |-> "NoContent"],
      [value |-> 400, res |-> "BadRequest"], [value |-> 403, res |-> "Forbidden"],
      [value |-> 404, res |-> "NotFound"], [value |-> 422, res |-> "UnprocessableEntity"],
      [value |-> 429, res |-> "TooManyRequests"],
      [value |-> 463, res |-> "ChangePasswordForbidden"],
      [value |-> 464, res |-> "SecretExpired"], [value |-> 465, res |-> "EmptyPassword"],
      [value |-> 466, res |-> "NewPasswordIsEqualToOld"],
      [value |-> 467, res |-> "InvalidPassword"], [value |-> 468, res |-> "InvalidSecret"],
      [value |-> 469, res |-> "PasswordExpired"], [value |-> 470, res |-> "TicketNotFound"],
      [value |-> 471, res |-> "TicketExpired"], [value |-> 472, res |-> "NotAuthorized"],
      [value |-> 473, res |-> "AuthenticationFailed"], [value |-> 474, res |-> "NotReady"],
      [value |-> 475, res |-> "FailOpenTransaction"], [value |-> 476, res |-> "FailCommit"],
      [value |-> 477, res |-> "FailStore"], [value |-> 500, res |-> "InternalServerError"],
      [value |-> 501, res |-> "NotImplemented"], [value |-> 503, res |-> "ServiceUnavailable"],
      [value |-> 904, res |-> "InvalidIdentifier"],
      [value |-> 999, res |-> "DatabaseModifiedError"], [value |-> 1021, res |-> "DiskFull"],
      [value |-> 1022, res |-> "DuplicateKey"], [value |-> 1118, res |-> "SizeTooLarge"],
      [value |-> 4000, res |-> "ConnectError"]>>

\* ResultCode::from_i64: the first arm that matches, `_ => ResultCode::Zero`
from_i64(value) ==
    IF \E i \in 1..Len(FromI64Arms) : FromI64Arms[i].value = value
    THEN FromI64Arms[CHOOSE i \in 1..Len(FromI64Arms) : FromI64Arms[i].value = value].res
    ELSE "Zero"

\* integers handed to from_i64 directly: a range around the small codes, the
\* neighbours of the large ones, and values beyond u16
I64Samples ==
    ((0 - 3)..520) \cup (900..1125) \cup (3998..4002)
        \cup {0 - 200, 65536, 65736, 999999}

ResultCodeInit ==
    /\ \/ f_pc = "variant" /\ f_arg \in [c : ResultCodeVariants, value : {0}]
       \/ f_pc = "integer" /\ f_arg \in [c : {"none"}, value : I64Samples]
    /\ f_ret = "unset"
    /\ CodecOff
    /\ GetOff
    /\ EngineOff
    /\ ContextOff
    /\ CountersOff
    /\ StatOff
    /\ SnapOff
    /\ OpenOff
    /\ MemOff
    /\ TxnOff
    /\ CallOff
    /\ ListenOff

\* `c as i64`
ResultCodeCast ==
    /\ f_pc = "variant"
    /\ f_arg' = [f_arg EXCEPT !.value = ResultCodeAsI64(f_arg.c)]
    /\ f_pc' = "cast"
    /\ UNCHANGED <<f_ret, codec_vars, get_vars, engine_vars, context_vars, counter_vars, stat_vars, snap_vars, open_vars, mem_vars, txn_vars, call_vars, listen_vars>>

ResultCodeFromI64 ==
    /\ f_pc \in {"cast", "integer"}
    /\ f_ret' = from_i64(f_arg.value)
    /\ f_pc' = IF f_pc = "cast" THEN "cast back" ELSE "converted"
    /\ UNCHANGED <<f_arg, codec_vars, get_vars, engine_vars, context_vars, counter_vars, stat_vars, snap_vars, open_vars, mem_vars, txn_vars, call_vars, listen_vars>>

ResultCodeNext == ResultCodeCast \/ ResultCodeFromI64

SpecResultCode == ResultCodeInit /\ [][ResultCodeNext]_vars

(***************************************************************************)
(* C25.  ResultCode::from_i64 inverts the numeric cast: for every variant  *)
(* c, from_i64(c as i64) = c, and every integer that is not the code of a  *)
(* variant maps to ResultCode::Zero.                                       *)
(***************************************************************************)
C25_FromI64InvertsCast ==
    /\ f_pc = "cast back" => f_ret = f_arg.c
    /\ (f_pc = "converted" /\ \A c \in ResultCodeVariants : ResultCodeAsI64(c) # f_arg.value)
          => f_ret = "Zero"

\* the variants from_i64 has an arm for are cast back to themselves
ArmedVariantsInverted ==
    (f_pc = "cast back" /\ f_arg.c \notin {"Locked", "TooManyRequestsChangePassword"})
        => f_ret = f_arg.c

(***************************************************************************)
(* storage::memory_storage::MemoryStorage: three HashMap<String, Vec<u8>>  *)
(* behind the Storage trait.  The calls take `&mut self`, and nothing that  *)
(* runs under a lock panics, so no lock is ever poisoned and every         *)
(* `read()` / `write()` returns Ok.                                        *)
(***************************************************************************)
StorageIds == {"Individuals", "Tickets", "Az"}
MemKeys == {"k1", "k2"}

\* str::as_bytes: the UTF-8 encoding of the characters used here
Utf8 == [a |-> <<97>>, e_acute |-> <<195, 169>>]
RECURSIVE as_bytes(_)
as_bytes(val) == IF val = <<>> THEN <<>> ELSE Utf8[val[1]] \o as_bytes(Tail(val))

\* the values handed to put_kv (text) and to put_kv_raw (bytes)
MemTexts == {<<"e_acute">>}
MemRaws == {<<>>, <<97>>}

\* MemoryStorage::new
MemoryStorage_new == [individuals |-> EmptyMap, tickets |-> EmptyMap, az |-> EmptyMap]

\* the field get_storage returns a reference to
get_storage_one_map(storage) == "individuals"

get_storage(storage) ==
    IF storage = "Individuals" THEN "individuals"
    ELSE IF storage = "Tickets" THEN "tickets"
    ELSE "az"

\* HashMap::remove
MapRemove(m, k) == [x \in DOMAIN m \ {k} |-> m[x]]

NothingPut == [p \in StorageIds \X MemKeys |-> [present |-> FALSE, val |-> <<>>]]

MemInit ==
    /\ m_self = MemoryStorage_new
    /\ m_put = NothingPut
    /\ m_ret = [op |-> "new", storage |-> "", key |-> "", res |-> TRUE, was |-> FALSE,
                before |-> MemoryStorage_new]
    /\ CodecOff
    /\ GetOff
    /\ EngineOff
    /\ ContextOff
    /\ CountersOff
    /\ StatOff
    /\ SnapOff
    /\ OpenOff
    /\ PureOff
    /\ TxnOff
    /\ CallOff
    /\ ListenOff

MemCalled(op, storage, key, res) ==
    m_ret' = [op |-> op, storage |-> storage, key |-> key, res |-> res,
              was |-> IF key \in MemKeys THEN m_put[<<storage, key>>].present ELSE FALSE,
              before |-> m_self]

MemPutKv ==
    \E storage \in StorageIds, key \in MemKeys, val \in MemTexts :
        /\ m_self' = [m_self EXCEPT ![get_storage(storage)] = MapPut(@, key, as_bytes(val))]
        /\ m_put' = [m_put EXCEPT ![<<storage, key>>] = [present |-> TRUE, val |-> as_bytes(val)]]
        /\ MemCalled("put_kv", storage, key, TRUE)
        /\ UNCHANGED <<codec_vars, get_vars, engine_vars, context_vars, counter_vars, stat_vars, snap_vars, open_vars, pure_vars, txn_vars, call_vars, listen_vars>>

MemPutKvRaw ==
    \E storage \in StorageIds, key \in MemKeys, val \in MemRaws :
        /\ m_self' = [m_self EXCEPT ![get_storage(storage)] = MapPut(@, key, val)]
        /\ m_put' = [m_put EXCEPT ![<<storage, key>>] = [present |-> TRUE, val |-> val]]
        /\ MemCalled("put_kv_raw", storage, key, TRUE)
        /\ UNCHANGED <<codec_vars, get_vars, engine_vars, context_vars, counter_vars, stat_vars, snap_vars, open_vars, pure_vars, txn_vars, call_vars, listen_vars>>

MemRemove ==
    \E storage \in StorageIds, key \in MemKeys :
        /\ m_self' = [m_self EXCEPT ![get_storage(storage)] = MapRemove(@, key)]
        /\ m_put' = [m_put EXCEPT ![<<storage, key>>] = [present |-> FALSE, val |-> <<>>]]
        /\ MemCalled("remove", storage, key, key \in DOMAIN m_self[get_storage(storage)])
        /\ UNCHANGED <<codec_vars, get_vars, engine_vars, context_vars, counter_vars, stat_vars, snap_vars, open_vars, pure_vars, txn_vars, call_vars, listen_vars>>

MemGetRaw ==
    \E storage \in StorageIds, key \in MemKeys :
        /\ LET map == m_self[get_storage(storage)]
           IN  MemCalled("get_raw", storage, key, IF key \in DOMAIN map THEN map[key] ELSE <<>>)
        /\ UNCHANGED <<m_self, m_put, codec_vars, get_vars, engine_vars, context_vars, counter_vars, stat_vars, snap_vars, open_vars, pure_vars, txn_vars, call_vars, listen_vars>>

MemCount ==
    \E storage \in StorageIds :
        /\ MemCalled("count", storage, "", Cardinality(DOMAIN m_self[get_storage(storage)]))
        /\ UNCHANGED <<m_self, m_put, codec_vars, get_vars, engine_vars, context_vars, counter_vars, stat_vars, snap_vars, open_vars, pure_vars, txn_vars, call_vars, listen_vars>>

MemNext == MemPutKv \/ MemPutKvRaw \/ MemRemove \/ MemGetRaw \/ MemCount

SpecMemory == MemInit /\ [][MemNext]_vars

\* the three maps, by StorageId
MapOf(self, storage) ==
    CASE storage = "Individuals" -> self.individuals
      [] storage = "Tickets" -> self.tickets
      [] storage = "Az" -> self.az

KeysPut(storage) == {k \in MemKeys : m_put[<<storage, k>>].present}

(***************************************************************************)
(* C26.  MemoryStorage behaves as three independent maps: after any        *)
(* sequence of put_kv, put_kv_raw and remove calls, get_raw(s, k) returns  *)
(* the last value put under (s, k) and not removed since (empty            *)
(* otherwise), remove(s, k) returns true exactly when k was present in s,  *)
(* count(s) is the number of keys present in s, and no operation on one    *)
(* StorageId changes another.                                              *)
(***************************************************************************)
C26_ThreeIndependentMaps ==
    /\ m_ret.op = "get_raw" =>
          m_ret.res = IF m_put[<<m_ret.storage, m_ret.key>>].present
                      THEN m_put[<<m_ret.storage, m_ret.key>>].val ELSE <<>>
    /\ m_ret.op = "remove" => m_ret.res = m_ret.was
    /\ m_ret.op = "count" => m_ret.res = Cardinality(KeysPut(m_ret.storage))
    /\ m_ret.op \in {"put_kv", "put_kv_raw"} => m_ret.res = TRUE
    /\ m_ret.op # "new" =>
          \A other \in StorageIds \ {m_ret.storage} :
              MapOf(m_self, other) = MapOf(m_ret.before, other)

\* a get_raw of one StorageId returns the value put there while the same key
\* holds another value in a second StorageId and has been removed from a third
C26_Witness ==
    /\ m_ret.op = "get_raw"
    /\ m_ret.res = <<195, 169>>
    /\ \E s2 \in StorageIds \ {m_ret.storage} :
          /\ m_put[<<s2, m_ret.key>>].present
          /\ m_put[<<s2, m_ret.key>>].val = <<97>>
    /\ \E s3 \in StorageIds \ {m_ret.storage} : ~m_put[<<s3, m_ret.key>>].present

\* a remove of a key that is absent returns false while another StorageId holds the key
C26_WitnessRemoveAbsent ==
    /\ m_ret.op = "remove"
    /\ m_ret.res = FALSE
    /\ \E s2 \in StorageIds \ {m_ret.storage} : m_put[<<s2, m_ret.key>>].present

\* a count of two keys
C26_WitnessCount ==
    /\ m_ret.op = "count"
    /\ m_ret.res = Cardinality(MemKeys)
    /\ \E s2 \in StorageIds : KeysPut(s2) = {}

(***************************************************************************)
(* Read transactions of one context, step by step through                  *)
(* authorize_and_trace_impl and authorize_use_db of the heed and the MDBX  *)
(* adapter.  A transaction is a local of the function that opens it and is *)
(* dropped (aborted) when that function returns, by whichever `return` or  *)
(* `?`; r_held is the set of transactions opened and not yet dropped.      *)
(***************************************************************************)
\* the calls of a behaviour
MaxTxnCalls == 2

TxnAdapters == {"lmdb", "mdbx"}

TxnDb == StoreOf(GroupRights)
TxnCacheDb == CacheOf(TxnDb)

NoLocals == [cache_db |-> FALSE, from_cache |-> FALSE]

\* variant: a return leaves the locals of the function open
ScopeExit_leaks(held, locals) == held

\* the end of the scope of a function: its locals are dropped
ScopeExit(held, locals) == held \ locals

\* where authorize_use_db of the adapter begins
TxnEntry(ctx) == IF ctx.adapter = "lmdb" THEN "read_txn" ELSE "engine"

\* the transactions that are locals of authorize_use_db
UseDbLocals(ctx) == IF ctx.adapter = "lmdb" THEN {"txn", "txn_cache"} ELSE {}

TxnIdle ==
    UNCHANGED <<r_ctx, codec_vars, get_vars, engine_vars, context_vars, counter_vars, stat_vars, snap_vars, open_vars, pure_vars, mem_vars, call_vars, listen_vars>>

TxnInit ==
    /\ r_pc = "idle"
    /\ r_ctx \in [adapter : TxnAdapters, use_cache : BOOLEAN]
    /\ r_held = {}
    /\ r_attempt = 0
    /\ r_st = <<>>
    /\ r_local = NoLocals
    /\ r_path = <<>>
    /\ r_calls = 0
    /\ CodecOff
    /\ GetOff
    /\ EngineOff
    /\ ContextOff
    /\ CountersOff
    /\ StatOff
    /\ SnapOff
    /\ OpenOff
    /\ PureOff
    /\ MemOff
    /\ CallOff
    /\ ListenOff

\* authorize_and_trace_impl up to the first authorize_use_db
TxnCall ==
    /\ r_pc = "idle"
    /\ r_calls < MaxTxnCalls
    /\ r_pc' = TxnEntry(r_ctx)
    /\ r_attempt' = 1
    /\ r_st' = EngineStart(UserUri, ResourceUri, SnapRequest)
    /\ r_local' = NoLocals
    /\ r_path' = <<>>
    /\ UNCHANGED <<r_held, r_calls>>
    /\ TxnIdle

\* authorize_use_db returns, holding `held`: on Ok, and on the Err of the
\* second run, authorize_and_trace_impl returns; on the Err of the first it
\* calls authorize_use_db again
TxnReturn(label, held) ==
    /\ r_held' = held
    /\ r_path' = Append(r_path, label)
    /\ r_local' = NoLocals
    /\ IF label = "ok" \/ r_attempt = 2
       THEN /\ r_pc' = "idle"
            /\ r_attempt' = 0
            /\ r_st' = <<>>
            /\ r_calls' = r_calls + 1
       ELSE /\ r_pc' = TxnEntry(r_ctx)
            /\ r_attempt' = 2
            /\ r_st' = EngineStart(UserUri, ResourceUri, SnapRequest)
            /\ r_calls' = r_calls
    /\ TxnIdle

\* `let txn = match self.env.read_txn()`
TxnReadTxn ==
    /\ r_pc = "read_txn"
    /\ \/ /\ r_held' = r_held \cup {"txn"}
          /\ r_pc' = "open_database"
          /\ UNCHANGED <<r_attempt, r_st, r_local, r_path, r_calls>>
          /\ TxnIdle
       \/ TxnReturn("txn", ScopeExit(r_held, {}))

\* `self.env.open_database(&txn, None)`: Ok(Some(db)), Ok(None) or Err
TxnOpenDatabase ==
    /\ r_pc = "open_database"
    /\ \/ /\ r_pc' = IF r_ctx.use_cache THEN "cache_read_txn" ELSE "engine"
          /\ UNCHANGED <<r_held, r_attempt, r_st, r_local, r_path, r_calls>>
          /\ TxnIdle
       \/ \E label \in {"database not found", "database"} :
              TxnReturn(label, ScopeExit(r_held, {"txn"}))

\* `let txn_cache = match env.read_txn()` of the cache environment
TxnCacheReadTxn ==
    /\ r_pc = "cache_read_txn"
    /\ \/ /\ r_held' = r_held \cup {"txn_cache"}
          /\ r_pc' = "cache_open_database"
          /\ UNCHANGED <<r_attempt, r_st, r_local, r_path, r_calls>>
          /\ TxnIdle
       \/ TxnReturn("cache txn", ScopeExit(r_held, {"txn"}))

\* `env.open_database(&txn_cache, None)`: Ok(None) and Err leave cache_db None
TxnCacheOpenDatabase ==
    /\ r_pc = "cache_open_database"
    /\ \E found \in BOOLEAN : r_local' = [r_local EXCEPT !.cache_db = found]
    /\ r_pc' = "engine"
    /\ UNCHANGED <<r_held, r_attempt, r_st, r_path, r_calls>>
    /\ TxnIdle

\* one AzLmdbStorage::get of the engine; an Err ends authorize_use_db
TxnLmdbGet ==
    /\ r_pc = "engine"
    /\ r_ctx.adapter = "lmdb"
    /\ r_st.phase # "done"
    /\ \E cache_fault \in BOOLEAN, db_fault \in BOOLEAN :
          LET got(g) ==
                IF g.res.kind = "err"
                THEN TxnReturn("engine", ScopeExit(r_held, UseDbLocals(r_ctx)))
                ELSE /\ r_st' = EngineApply(r_st, g.res, SnapRequest, TimeOf(ValidUntil))
                     /\ UNCHANGED <<r_pc, r_held, r_attempt, r_local, r_path, r_calls>>
                     /\ TxnIdle
          IN got(lmdb_get(IF r_local.cache_db THEN <<TxnCacheDb>> ELSE <<>>,
                          IF "txn_cache" \in r_held THEN <<"txn">> ELSE <<>>,
                          TxnDb, EngineKey(r_st, ResourceUri), cache_fault, db_fault,
                          "NoStat"))

\* AzMdbxStorage::get begins: read_from_db of the cache when there is one,
\* else of the main database
TxnMdbxGet ==
    /\ r_pc = "engine"
    /\ r_ctx.adapter = "mdbx"
    /\ r_st.phase # "done"
    /\ r_pc' = "begin_ro_txn"
    /\ r_local' = [r_local EXCEPT !.from_cache = r_ctx.use_cache]
    /\ UNCHANGED <<r_held, r_attempt, r_st, r_path, r_calls>>
    /\ TxnIdle

\* read_from_db returns r, holding `held`.  A value of the cache is the value
\* of get; after any other answer of the cache get reads the main database,
\* whose answer is the answer of get; an Err of get ends authorize_use_db
ReadFromDbReturns(r, held) ==
    IF r_local.from_cache /\ r.kind # "some"
    THEN /\ r_pc' = "begin_ro_txn"
         /\ r_local' = [r_local EXCEPT !.from_cache = FALSE]
         /\ r_held' = held
         /\ UNCHANGED <<r_attempt, r_st, r_path, r_calls>>
         /\ TxnIdle
    ELSE IF r.kind = "err"
    THEN TxnReturn("engine", ScopeExit(held, UseDbLocals(r_ctx)))
    ELSE /\ r_pc' = "engine"
         /\ r_st' = EngineApply(r_st, r, SnapRequest, TimeOf(ValidUntil))
         /\ r_local' = NoLocals
         /\ r_held' = held
         /\ UNCHANGED <<r_attempt, r_path, r_calls>>
         /\ TxnIdle

\* `let txn = db.begin_ro_txn().map_err(..)?`
TxnBeginRoTxn ==
    /\ r_pc = "begin_ro_txn"
    /\ \/ /\ r_held' = r_held \cup {"read"}
          /\ r_pc' = "open_table"
          /\ UNCHANGED <<r_attempt, r_st, r_local, r_path, r_calls>>
          /\ TxnIdle
       \/ ReadFromDbReturns(IoErr, ScopeExit(r_held, {}))

\* `let table = txn.open_table(None).map_err(..)?`
TxnOpenTable ==
    /\ r_pc = "open_table"
    /\ \/ /\ r_pc' = "txn.get"
          /\ UNCHANGED <<r_held, r_attempt, r_st, r_local, r_path, r_calls>>
          /\ TxnIdle
       \/ ReadFromDbReturns(IoErr, ScopeExit(r_held, {"read"}))

\* `match txn.get(&table, key.as_bytes())` and the end of read_from_db
TxnRead ==
    /\ r_pc = "txn.get"
    /\ \E fault \in BOOLEAN :
          ReadFromDbReturns(
              read_from_db(r_ctx.use_cache,
                           IF r_local.from_cache THEN TxnCacheDb ELSE TxnDb,
                           EngineKey(r_st, ResourceUri), r_local.from_cache, fault,
                           "NoStat").res,
              ScopeExit(r_held, {"read"}))

\* authorize returns Ok
TxnEngineDone ==
    /\ r_pc = "engine"
    /\ r_st.phase = "done"
    /\ TxnReturn("ok", ScopeExit(r_held, UseDbLocals(r_ctx)))

TxnNext ==
    \/ TxnCall
    \/ TxnReadTxn
    \/ TxnOpenDatabase
    \/ TxnCacheReadTxn
    \/ TxnCacheOpenDatabase
    \/ TxnLmdbGet
    \/ TxnMdbxGet
    \/ TxnBeginRoTxn
    \/ TxnOpenTable
    \/ TxnRead
    \/ TxnEngineDone

SpecTxn == TxnInit /\ [][TxnNext]_vars

(***************************************************************************)
(* C27.  Every read transaction opened by authorize is released before     *)
(* authorize returns, on every exit path (success, failure to open the     *)
(* primary or cache transaction or database, engine error, and after the   *)
(* retry): whenever no authorize call is executing on a context, that      *)
(* context holds no open read transaction.                                 *)
(***************************************************************************)
C27_TransactionsReleased == r_pc = "idle" => r_held = {}

\* a call of the heed context has returned Ok from its second run, after a
\* first run that opened the primary transaction and failed to open the
\* transaction of the cache
C27_Witness ==
    /\ r_pc = "idle"
    /\ r_calls > 0
    /\ r_ctx.adapter = "lmdb"
    /\ r_path = <<"cache txn", "ok">>

\* a call has returned the engine's error from both runs
C27_WitnessEngineError ==
    /\ r_pc = "idle"
    /\ r_calls > 0
    /\ r_path = <<"engine", "engine">>

\* the MDBX context holds the transaction of a read in the middle of a call
C27_WitnessMdbxRead ==
    /\ r_ctx.adapter = "mdbx"
    /\ r_pc = "txn.get"
    /\ r_held = {"read"}

(***************************************************************************)
(* C28.  The per-context read counter is incremented exactly once per      *)
(* authorize call (not once per run of authorize_use_db) and reset to 0    *)
(* when it reaches max_authorize_counter: after every call                 *)
(* 0 <= authorize_counter < max_authorize_counter whenever                 *)
(* max_authorize_counter >= 1, and the counter never overflows: the        *)
(* incremented value is at most max_authorize_counter, or 1 when that is   *)
(* 0, so it is a u64 as max_authorize_counter is.                          *)
(***************************************************************************)
C28_CounterOncePerCall ==
    x_last # <<>> =>
        LET max == x_ctx.max_authorize_counter
            counter == x_last.counter + 1
        IN  /\ x_ctx.authorize_counter = IF counter >= max THEN 0 ELSE counter
            /\ max >= 1 => 0 <= x_ctx.authorize_counter /\ x_ctx.authorize_counter < max
            /\ counter <= IF max = 0 THEN 1 ELSE max

\* a call that ran authorize_use_db twice has taken the counter from 0 to 1
C28_Witness ==
    /\ x_last # <<>>
    /\ Len(x_last.runs) = 2
    /\ x_last.counter = 0
    /\ x_ctx.authorize_counter = 1

\* the second call of a context has reset the counter on reaching the maximum
C28_WitnessReset ==
    /\ x_last # <<>>
    /\ x_calls = 2
    /\ x_last.counter = 1
    /\ x_ctx.max_authorize_counter = 2
    /\ x_ctx.authorize_counter = 0

\* a context built with the maximum 0 stays at 0
C28_WitnessZeroMax ==
    /\ x_last # <<>>
    /\ x_ctx.max_authorize_counter = 0
    /\ x_ctx.authorize_counter = 0

\* the tags that had a counter before the call of u_call and whose bit is in
\* its cur_access
CalledTags ==
    {c \in DOMAIN u_call.counters : BitAnd(u_call.cur_access, access8_from_char(c)) > 0}

(***************************************************************************)
(* C29.  update_counters never takes a counter below zero: over any        *)
(* sequence of calls, a remove (is_deleted, no drop_count, prev_access     *)
(* containing the bit) applied to a tag whose counter is already 0 leaves  *)
(* the counter at 0 and the bit cleared, without wrap-around or panic.     *)
(***************************************************************************)
C29_RemoveAtZeroStaysZero ==
    /\ u_pc # "panicked"
    /\ u_pc = "removed at zero" =>
          /\ u_counters[access8_to_char(u_bit)] = 0
          /\ ~HasBit(u_out, u_bit)

\* what the remove at zero does in a build without overflow checks: the
\* counter is 65535 and the bit stays in the access returned
RemoveAtZeroWraps ==
    u_pc = "removed at zero" =>
        /\ u_counters[access8_to_char(u_bit)] = U16 - 1
        /\ HasBit(u_out, u_bit)

(***************************************************************************)
(* C30.  With drop_count set, update_counters forces instead of counting:  *)
(* for each tag that has a counter and whose bit is in the new access,     *)
(* the counter becomes 0 and the bit is cleared from the result when       *)
(* is_deleted, and the counter becomes 1 and the bit is set when not       *)
(* deleted, whatever the counter's previous value.                         *)
(***************************************************************************)
C30_DropCountForces ==
    u_pc = "dropped" =>
        \A c \in CalledTags :
            /\ u_counters[c] = IF u_call.is_deleted THEN 0 ELSE 1
            /\ HasBit(u_out, access8_from_char(c)) <=> ~u_call.is_deleted

\* a deleting call with drop_count met the counters 3 and 2 and left both 0
C30_Witness ==
    /\ u_pc = "dropped"
    /\ u_call.is_deleted
    /\ Cardinality(CalledTags) = 2
    /\ \E c \in CalledTags : u_call.counters[c] = 3
    /\ \E c \in CalledTags : u_call.counters[c] = 2
    /\ \A c \in CalledTags : u_counters[c] = 0
    /\ u_out = 0

\* a call with drop_count, not deleting, met a counter of 65535 and of 0 and
\* left it 1
C30_WitnessSet ==
    /\ u_pc = "dropped"
    /\ ~u_call.is_deleted
    /\ \E c \in CalledTags : u_call.counters[c] \in {0, U16 - 1} /\ u_counters[c] = 1
    /\ HasBit(u_out, u_bit)

(***************************************************************************)
(* Decoding runs: decode_rec_to_rights and decode_rec_to_rightset of a     *)
(* text that is an optional date prefix, up to two `id;value;` pairs and   *)
(* a tail that does not end with ";".                                      *)
(***************************************************************************)
\* the values of the pairs: empty, format 2 with and without counters and
\* markers, counters that do not parse, format 1
PairValues ==
    {<<>>, <<"R">>, <<"R", "U">>, <<"R", "3", "U">>, <<"R", "X">>, <<"R", "0">>,
     <<"R", "x", "U">>, <<"U", "6", "5", "5", "3", "6">>, <<"U", "6", "5", "5", "3", "5">>,
     <<"3">>, <<"g", "3", "X">>}

DecodePairInputs ==
    {<<>>}
    \cup {<<[key |-> k, value |-> v]>> : k \in {IdA, IdB}, v \in PairValues}
    \cup {<<[key |-> IdA, value |-> v1], [key |-> k2, value |-> v2]>> :
            k2 \in {IdA, IdB}, v1 \in PairValues, v2 \in PairValues}

\* the text after the last complete pair: none, a key, a key and a value
DecodeTails == {<<>>, <<"c">>, <<"c", ";", "U">>}

RECURSIVE PairsText(_)
PairsText(pairs) ==
    IF pairs = <<>> THEN <<>>
    ELSE Head(pairs).key \o <<";">> \o Head(pairs).value \o <<";">> \o PairsText(Tail(pairs))

DatePrefix(date) == IF date # <<>> THEN FormatDate(date[1]) \o <<",">> ELSE <<>>

\* the text of f_arg, and the same text cut after its last complete pair
DecodeText == DatePrefix(f_arg.date) \o PairsText(f_arg.pairs) \o f_arg.tail
DecodeTextCut == DatePrefix(f_arg.date) \o PairsText(f_arg.pairs)

DecodeInit ==
    /\ f_pc = "text"
    /\ f_arg \in [date : SampleDates, pairs : DecodePairInputs, tail : DecodeTails]
    /\ f_ret = [rights |-> <<>>, rightset |-> <<>>]
    /\ CodecOff
    /\ GetOff
    /\ EngineOff
    /\ ContextOff
    /\ CountersOff
    /\ StatOff
    /\ SnapOff
    /\ OpenOff
    /\ MemOff
    /\ TxnOff
    /\ CallOff
    /\ ListenOff

\* decode_rec_to_rights(src, &mut result) with an empty result
DecodeRights ==
    /\ f_pc = "text"
    /\ f_ret.rights = <<>>
    /\ f_ret' = [f_ret EXCEPT !.rights = <<decode_rec_to_rights(DecodeText)>>]
    /\ UNCHANGED <<f_pc, f_arg, codec_vars, get_vars, engine_vars, context_vars, counter_vars, stat_vars, snap_vars, open_vars, mem_vars, txn_vars, call_vars, listen_vars>>

\* decode_rec_to_rightset(src, &mut new_rights) with an empty new_rights
DecodeRightset ==
    /\ f_pc = "text"
    /\ f_ret.rightset = <<>>
    /\ f_ret' = [f_ret EXCEPT !.rightset = <<decode_rec_to_rightset(DecodeText, EmptyMap)>>]
    /\ UNCHANGED <<f_pc, f_arg, codec_vars, get_vars, engine_vars, context_vars, counter_vars, stat_vars, snap_vars, open_vars, mem_vars, txn_vars, call_vars, listen_vars>>

DecodeNext == DecodeRights \/ DecodeRightset

SpecDecode == DecodeInit /\ [][DecodeNext]_vars

RightsDecoded == f_pc = "text" /\ f_ret.rights # <<>>
RightsetDecoded == f_pc = "text" /\ f_ret.rightset # <<>>

\* the ids of a sequence of records, in order
IdsOf(recs) == [i \in 1..Len(recs) |-> recs[i].id]

\* the keys of the complete pairs of f_arg whose value is not empty, in order
ValuedKeys ==
    LET valued == SelectSeq(f_arg.pairs, LAMBDA p : p.value # <<>>)
    IN [i \in 1..Len(valued) |-> valued[i].key]

(***************************************************************************)
(* C31.  When an encoded value does not end with ";", the text after the    *)
(* last complete `id;value;` pair is ignored: it contributes no record,    *)
(* and the records of the complete pairs before it are returned unchanged. *)
(***************************************************************************)
C31_TailIgnored ==
    (RightsDecoded /\ f_arg.tail # <<>>) =>
        /\ IdsOf(f_ret.rights[1].recs) = ValuedKeys
        /\ f_ret.rights[1].recs = decode_rec_to_rights(DecodeTextCut).recs

\* what the decoder does with the tail: a key that no value follows is
\* ignored; `id;value` without the closing ";" is decoded as the pair it
\* would be with the ";"
UnclosedPairDecoded ==
    (RightsDecoded /\ f_arg.tail # <<>>) =>
        IF ";" \notin Range(f_arg.tail)
        THEN /\ IdsOf(f_ret.rights[1].recs) = ValuedKeys
             /\ f_ret.rights[1].recs = decode_rec_to_rights(DecodeTextCut).recs
             /\ f_ret.rights[1].ok
        ELSE f_ret.rights[1] = decode_rec_to_rights(DecodeText \o <<";">>)

\* two pairs and a key without value gave the two records of the pairs
LoneKeyReached ==
    /\ RightsDecoded
    /\ f_arg.tail = <<"c">>
    /\ Len(f_arg.pairs) = 2
    /\ IdsOf(f_ret.rights[1].recs) = <<IdA, IdB>>

\* a pair without its closing ";" gave a record after that of a complete pair
UnclosedPairReached ==
    /\ RightsDecoded
    /\ f_arg.tail = <<"c", ";", "U">>
    /\ IdsOf(f_ret.rights[1].recs) = <<IdA, <<"c">>>>
    /\ f_ret.rights[1].recs[2].access = 4

\* the pairs of f_arg whose value is not empty, in order
ValuedPairs == SelectSeq(f_arg.pairs, LAMBDA p : p.value # <<>>)

(***************************************************************************)
(* C35.  decode_rec_to_rights returns the records in the order their pairs *)
(* appear in the input, and a pair whose value is empty produces no record *)
(* while every pair after it is still decoded: the records of a text of    *)
(* complete pairs are, in order, the records each pair with a value gives  *)
(* when decoded alone.                                                     *)
(***************************************************************************)
C35_EncounteredOrder ==
    (RightsDecoded /\ f_arg.tail = <<>>) =>
        /\ Len(f_ret.rights[1].recs) = Len(ValuedPairs)
        /\ \A i \in 1..Len(ValuedPairs) :
              /\ f_ret.rights[1].recs[i].id = ValuedPairs[i].key
              /\ <<f_ret.rights[1].recs[i]>> =
                    decode_rec_to_rights(PairsText(<<ValuedPairs[i]>>)).recs

\* a pair with an empty value came first and the pair after it was decoded
C35_Witness ==
    /\ RightsDecoded
    /\ f_arg.tail = <<>>
    /\ Len(f_arg.pairs) = 2
    /\ f_arg.pairs[1].value = <<>>
    /\ IdsOf(f_ret.rights[1].recs) = <<IdB>>
    /\ f_ret.rights[1].recs[1].access = 6

\* two pairs with values gave their records in the order of the text
C35_WitnessOrder ==
    /\ RightsDecoded
    /\ f_arg.tail = <<>>
    /\ IdsOf(f_ret.rights[1].recs) = <<IdA, IdB>>
    /\ f_ret.rights[1].recs[1].access # f_ret.rights[1].recs[2].access

\* the text between the tag at position i of a v2 value and the next tag or
\* marker
RECURSIVE TextAfterTag(_, _)
TextAfterTag(value, i) ==
    IF i + 1 > Len(value) \/ IsTagOrMarker(value[i + 1]) THEN <<>>
    ELSE <<value[i + 1]>> \o TextAfterTag(value, i + 1)

\* val.parse::<u16>() is an Err: the text is empty, holds a character that is
\* no digit, or is a number above 65535
NotACounter(text) == ParseU16(text) = NoNum

\* the pair that decides the record of its key: no later pair of the text
\* with a value has the same key
DecidingPairs ==
    {i \in 1..Len(f_arg.pairs) :
        /\ f_arg.pairs[i].value # <<>>
        /\ \A j \in (i + 1)..Len(f_arg.pairs) :
              f_arg.pairs[j].key = f_arg.pairs[i].key => f_arg.pairs[j].value = <<>>}

\* positions of a v2 value holding the last occurrence of an access tag
LastTagPositions(value) ==
    {i \in 1..Len(value) :
        /\ value[i] \in Range(ACCESS_C_FULL_LIST)
        /\ \A j \in (i + 1)..Len(value) : value[j] # value[i]}

IsV2Value(value) == value # <<>> /\ access_from_char(Head(value)) # NoNum

(***************************************************************************)
(* C37.  In a v2 value, when the text following a tag is not a valid       *)
(* counter (empty, non-numeric, or larger than 65535) the counter recorded *)
(* for that tag by decode_rec_to_rightset is 1, and the access bit of the  *)
(* tag is still set.                                                       *)
(***************************************************************************)
C37_InvalidCounterIsOne ==
    RightsetDecoded =>
        \A i \in DecidingPairs :
            IsV2Value(f_arg.pairs[i].value) =>
                \A t \in LastTagPositions(f_arg.pairs[i].value) :
                    NotACounter(TextAfterTag(f_arg.pairs[i].value, t)) =>
                        LET rec == f_ret.rightset[1].set[f_arg.pairs[i].key]
                            tag == f_arg.pairs[i].value[t]
                        IN /\ tag \in DOMAIN rec.counters
                           /\ rec.counters[tag] = 1
                           /\ HasBit(rec.access, access_from_char(tag))

\* a counter text above 65535 was decoded
C37_Witness ==
    /\ RightsetDecoded
    /\ f_arg.pairs = <<[key |-> IdA, value |-> <<"U", "6", "5", "5", "3", "6">>]>>
    /\ f_ret.rightset[1].set[IdA].counters["U"] = 1
    /\ f_ret.rightset[1].set[IdA].access = 4

\* a non-numeric counter text and an empty one were decoded
C37_WitnessNonNumeric ==
    /\ RightsetDecoded
    /\ f_arg.pairs = <<[key |-> IdA, value |-> <<"R", "x", "U">>]>>
    /\ f_ret.rightset[1].set[IdA].counters["R"] = 1
    /\ f_ret.rightset[1].set[IdA].counters["U"] = 1
    /\ f_ret.rightset[1].set[IdA].access = 6

\* next to a valid counter, which is kept
C37_WitnessBesideValid ==
    /\ RightsetDecoded
    /\ f_arg.pairs = <<[key |-> IdA, value |-> <<"R", "3", "U">>]>>
    /\ f_ret.rightset[1].set[IdA].counters["R"] = 3
    /\ f_ret.rightset[1].set[IdA].counters["U"] = 1

\* the access tags whose bit is set in an access byte
TagsOfAccess(access) ==
    {t \in Range(ACCESS_C_FULL_LIST) : HasBit(access, access_from_char(t))}

RecordSelfConsistent(rec) ==
    /\ DOMAIN rec.counters = TagsOfAccess(rec.access)
    /\ \A t \in DOMAIN rec.counters : rec.counters[t] >= 1

(***************************************************************************)
(* C38.  After decode_rec_to_rightset, every record is self-consistent:    *)
(* its counter map has an entry, with value >= 1, for exactly those access *)
(* tags whose bit is set in its access byte, and has no entry for a marker *)
(* or any other character.                                                 *)
(***************************************************************************)
C38_RecordsSelfConsistent ==
    RightsetDecoded =>
        \A id \in DOMAIN f_ret.rightset[1].set :
            RecordSelfConsistent(f_ret.rightset[1].set[id])

\* what decode_value_v2 does keep: every access tag whose bit is set has an
\* entry, and an entry under another character is under a marker
TagsOfAccessCounted ==
    RightsetDecoded =>
        \A id \in DOMAIN f_ret.rightset[1].set :
            LET rec == f_ret.rightset[1].set[id]
            IN /\ TagsOfAccess(rec.access) \subseteq DOMAIN rec.counters
               /\ DOMAIN rec.counters \ TagsOfAccess(rec.access)
                     \subseteq {M_IS_EXCLUSIVE, M_IGNORE_EXCLUSIVE}

\* a marker of a v2 value got a counter entry
MarkerCounted ==
    /\ RightsetDecoded
    /\ f_arg.pairs = <<[key |-> IdA, value |-> <<"R", "X">>]>>
    /\ DOMAIN f_ret.rightset[1].set[IdA].counters = {"R", "X"}

\* a counter text "0" left a set bit with the counter 0
ZeroCounted ==
    /\ RightsetDecoded
    /\ f_arg.pairs = <<[key |-> IdA, value |-> <<"R", "0">>]>>
    /\ f_ret.rightset[1].set[IdA].counters["R"] = 0
    /\ f_ret.rightset[1].set[IdA].access = 2

(***************************************************************************)
(* decode_value_v1 on a value and on the value without one of its          *)
(* characters.                                                             *)
(***************************************************************************)
MaxValueLen == 3

V1Chars == {"1", "8", "F", "a", "g", "R", " ", "X", "N"}

V1Values == UNION {[1..n -> V1Chars] : n \in 1..MaxValueLen}

\* value without the character at position at
RemoveAt(value, at) ==
    [i \in 1..(Len(value) - 1) |-> IF i < at THEN value[i] ELSE value[i + 1]]

ValueV1Init ==
    /\ f_pc = "v1"
    /\ \E value \in V1Values, at \in 1..MaxValueLen, with_count \in BOOLEAN :
          /\ at <= Len(value)
          /\ f_arg = [value |-> value, at |-> at, with_count |-> with_count]
    /\ f_ret = [whole |-> <<>>, cut |-> <<>>]
    /\ CodecOff /\ GetOff /\ EngineOff /\ ContextOff /\ CountersOff /\ StatOff
    /\ SnapOff /\ OpenOff /\ MemOff /\ TxnOff /\ CallOff
    /\ ListenOff

DecodeWhole ==
    /\ f_pc = "v1"
    /\ f_ret.whole = <<>>
    /\ f_ret' = [f_ret EXCEPT !.whole =
                    <<decode_value_v1(f_arg.value, ACLRecord_new(IdA), f_arg.with_count)>>]
    /\ UNCHANGED <<f_pc, f_arg, codec_vars, get_vars, engine_vars, context_vars,
                   counter_vars, stat_vars, snap_vars, open_vars, mem_vars, txn_vars,
                   call_vars, listen_vars>>

DecodeCut ==
    /\ f_pc = "v1"
    /\ f_ret.cut = <<>>
    /\ f_ret' = [f_ret EXCEPT !.cut =
                    <<decode_value_v1(RemoveAt(f_arg.value, f_arg.at), ACLRecord_new(IdA),
                                      f_arg.with_count)>>]
    /\ UNCHANGED <<f_pc, f_arg, codec_vars, get_vars, engine_vars, context_vars,
                   counter_vars, stat_vars, snap_vars, open_vars, mem_vars, txn_vars,
                   call_vars, listen_vars>>

ValueV1Next == DecodeWhole \/ DecodeCut

SpecValueV1 == ValueV1Init /\ [][ValueV1Next]_vars

BothValuesDecoded == f_pc = "v1" /\ f_ret.whole # <<>> /\ f_ret.cut # <<>>

\* the character at position at is neither a hex digit nor a marker
SkippedChar ==
    /\ to_digit16(f_arg.value[f_arg.at]) = NoNum
    /\ f_arg.value[f_arg.at] \notin {M_IS_EXCLUSIVE, M_IGNORE_EXCLUSIVE}

(***************************************************************************)
(* C39.  In a v1 value, a character that is neither a hex digit nor a      *)
(* marker is skipped without corrupting other bits: decode_value_v1 gives  *)
(* the same access byte and marker for the value and for the value with    *)
(* that character removed.                                                 *)
(***************************************************************************)
C39_SkippedCharHarmless ==
    (BothValuesDecoded /\ SkippedChar) =>
        /\ f_ret.whole[1].access = f_ret.cut[1].access
        /\ f_ret.whole[1].marker = f_ret.cut[1].marker

\* a skipped character stood between two hex digits
C39_Witness ==
    /\ BothValuesDecoded
    /\ f_arg.value = <<"1", "g", "F">>
    /\ f_arg.at = 2
    /\ f_ret.whole[1].access = 241
    /\ f_ret.cut[1].access = 241

\* a skipped character stood before the digit and the marker
C39_WitnessMarker ==
    /\ BothValuesDecoded
    /\ f_arg.value = <<" ", "8", "X">>
    /\ f_arg.at = 1
    /\ f_ret.whole[1].access = 8
    /\ f_ret.whole[1].marker = M_IS_EXCLUSIVE
    /\ f_ret.cut[1].marker = M_IS_EXCLUSIVE

(***************************************************************************)
(* The two entry points of a context: authorize, which ends with the flush *)
(* of the sidecar, and authorize_and_trace called by itself.  x_last keeps *)
(* the entries each run of authorize_use_db collected.                     *)
(***************************************************************************)
TraceAdapters == {"lmdb", "mdbx", "tarantool"}

TraceContexts ==
    {[adapter |-> ad, authorize_counter |-> 0, max_authorize_counter |-> mx,
      use_cache |-> uc, stat_mode |-> sm, is_connected |-> FALSE,
      message_buffer |-> <<>>] :
        ad \in TraceAdapters, mx \in {1, MaxCounter + 1}, uc \in BOOLEAN,
        sm \in {"NoStat", "Full", "Minimal", "None"}}

TraceInit ==
    /\ x_ctx \in TraceContexts
    /\ x_env \in ContextEnvs
    /\ x_calls = 0
    /\ x_faults = 0
    /\ x_last = <<>>
    /\ CodecOff /\ GetOff /\ EngineOff /\ CountersOff /\ StatOff /\ SnapOff
    /\ OpenOff /\ PureOff /\ MemOff /\ TxnOff /\ CallOff
    /\ ListenOff

\* the entries collected by each run of a call, in order
Attempts(first, second) ==
    IF first.res.kind = "ok" THEN <<first.msgs>> ELSE <<first.msgs, second.msgs>>

\* authorize_and_trace of a context over LMDB or MDBX
TraceOutcome(ctx, use_db, plan) ==
    IF ctx.adapter = "lmdb" THEN lmdb_authorize_and_trace(ctx, use_db, plan)
    ELSE authorize_and_trace_impl(ctx, use_db, plan)

TraceReturned(op, ctx, res, runs, attempts, sent, request_access, plan) ==
    /\ x_ctx' = ctx
    /\ x_last' = [op |-> op, request_access |-> request_access, res |-> res,
                  runs |-> runs, attempts |-> attempts, sent |-> sent,
                  before |-> x_ctx.message_buffer, flush |-> plan.flush]
    /\ x_calls' = x_calls + 1
    /\ x_faults' = x_faults + PlannedFaults(plan)
    /\ UNCHANGED <<x_env, codec_vars, get_vars, engine_vars, counter_vars, stat_vars,
                   snap_vars, open_vars, pure_vars, mem_vars, txn_vars, call_vars, listen_vars>>

\* AuthorizationContext::authorize of impl_authorization_context and of
\* LmdbAzContext: authorize_and_trace, then the flush
TraceAuthorize ==
    /\ x_ctx # <<>>
    /\ x_ctx.adapter \in {"lmdb", "mdbx"}
    /\ x_calls < MaxCalls
    /\ \E rq \in ContextRequests :
        LET called(use_db) ==
                \E plan \in Plans(x_ctx, MaxFaults - x_faults) :
                    LET flushed(out, r) ==
                            TraceReturned("authorize", r.ctx, r.res, out.runs,
                                          Attempts(use_db[FaultName(plan.first)],
                                                   use_db[FaultName(plan.second)]),
                                          r.sent, rq, plan)
                        traced(out) == flushed(out, authorize_with_stat(out, plan.flush))
                    IN traced(TraceOutcome(x_ctx, use_db, plan))
        IN called(UseDb(Counted(x_ctx), x_env, ResourceUri, UserUri, rq))

\* AuthorizationContext::authorize_and_trace of impl_authorization_context
\* and of LmdbAzContext, called by itself: stat.point.flush is not called
TraceDirect ==
    /\ x_ctx # <<>>
    /\ x_ctx.adapter \in {"lmdb", "mdbx"}
    /\ x_calls < MaxCalls
    /\ \E rq \in ContextRequests :
        LET called(use_db) ==
                \E plan \in Plans(x_ctx, MaxFaults - x_faults) :
                    /\ plan.flush = ""
                    /\ LET traced(out) ==
                               TraceReturned("authorize_and_trace", out.ctx, out.res,
                                             out.runs,
                                             Attempts(use_db[FaultName(plan.first)],
                                                      use_db[FaultName(plan.second)]),
                                             <<>>, rq, plan)
                       IN traced(TraceOutcome(x_ctx, use_db, plan))
        IN called(UseDb(Counted(x_ctx), x_env, ResourceUri, UserUri, rq))

\* what the call of the stored procedure gives: the byte, or an error of the
\* transport
TarantoolResults == {Ok(0), Ok(2), Err("call_fn")}

\* TarantoolAzContext::authorize_and_trace: authorize when trace.is_info is
\* not set, else the call of authorize_trace; both end with the flush, and
\* nothing is collected
TraceTarantool ==
    /\ x_ctx # <<>>
    /\ x_ctx.adapter = "tarantool"
    /\ x_calls < MaxCalls
    /\ \E rq \in ContextRequests, is_info \in BOOLEAN, result \in TarantoolResults,
          fl \in {"", "connect", "send"} :
        /\ fl # "" => x_faults < MaxFaults /\ x_ctx.stat_mode \in {"Full", "Minimal"}
        /\ fl = "connect" => ~x_ctx.is_connected
        /\ TraceReturned("authorize_and_trace", FlushStat(x_ctx, fl), result, <<result>>,
                         <<<<>>>>, Sent(x_ctx, fl), rq,
                         [first |-> NoFault, second |-> NoFault, reopen_reset |-> FALSE,
                          reopen_retry |-> FALSE, flush |-> fl])

TraceNext ==
    \/ TraceAuthorize
    \/ TraceDirect
    \/ TraceTarantool

SpecTrace == TraceInit /\ [][TraceNext]_vars

TracedDirectly == x_last # <<>> /\ x_last.op = "authorize_and_trace"

(***************************************************************************)
(* C32.  After authorize_and_trace is called directly (not through         *)
(* authorize) in Full statistics mode with a reachable endpoint, the       *)
(* statistics buffer is empty when the call returns.                       *)
(***************************************************************************)
C32_DirectCallLeavesBufferEmpty ==
    (TracedDirectly /\ x_ctx.stat_mode = "Full" /\ x_last.flush = "") =>
        x_ctx.message_buffer = <<>>

\* what holds of a direct call over LMDB or MDBX: the buffer is the buffer of
\* before the call followed by the entries of its runs
DirectCallKeepsEntries ==
    (TracedDirectly /\ x_ctx.adapter \in {"lmdb", "mdbx"}) =>
        x_ctx.message_buffer =
            x_last.before
            \o x_last.attempts[1]
            \o (IF Len(x_last.attempts) = 2 THEN x_last.attempts[2] ELSE <<>>)

\* the Tarantool context does leave the buffer empty
TarantoolBufferEmpty ==
    (x_ctx # <<>> /\ x_ctx.adapter = "tarantool") => x_ctx.message_buffer = <<>>

\* two direct calls left the entries of both in the buffer
BufferGrown ==
    /\ TracedDirectly
    /\ x_calls = 2
    /\ x_ctx.stat_mode = "Full"
    /\ x_last.before # <<>>
    /\ Len(x_ctx.message_buffer) > Len(x_last.before)

\* an authorize call whose first run failed, whose second run was made, and
\* whose flush handed a message to the socket
RetriedAndFlushed ==
    /\ x_last # <<>>
    /\ x_last.op = "authorize"
    /\ Len(x_last.attempts) = 2
    /\ x_last.sent # <<>>

(***************************************************************************)
(* C33, as stated.  When the first attempt of a decision fails and the     *)
(* decision is retried, the statistics message flushed for that authorize  *)
(* call lists only the keys read by the final attempt: entries collected   *)
(* during the failed attempt are not sent.                                 *)
(***************************************************************************)
C33_OnlyFinalAttemptSent ==
    (RetriedAndFlushed /\ x_last.before = <<>>) =>
        x_last.sent[1] = x_last.attempts[2]

(***************************************************************************)
(* C33, amended.  When the first attempt of a decision fails and the       *)
(* decision is retried, the statistics message flushed for that authorize  *)
(* call lists what was in the buffer before the call, then the entries     *)
(* collected during the failed attempt, then the keys read by the final    *)
(* attempt: a key read once per attempt is reported twice.                 *)
(***************************************************************************)
C33_BothAttemptsSent ==
    RetriedAndFlushed =>
        x_last.sent[1] = x_last.before \o x_last.attempts[1] \o x_last.attempts[2]

\* the failed attempt had read a key, and the message names that key twice
C33_Witness ==
    /\ RetriedAndFlushed
    /\ x_last.before = <<>>
    /\ x_last.attempts[1] # <<>>
    /\ x_last.res.kind = "ok"
    /\ x_last.sent[1][1] = x_last.attempts[1][1]
    /\ x_last.sent[1][Len(x_last.attempts[1]) + 1] = x_last.attempts[1][1]

(***************************************************************************)
(* storage/async_storage.rs: check_indv_access_read over the legacy        *)
(* LmdbAzContext.  x_ctx = <<>> stands for az = None.                      *)
(***************************************************************************)
\* Access::CanRead as u8
CanRead == access_from_char("R")

\* variant: `.unwrap_or(Access::CanRead as u8)`
check_indv_access_read_unwrap_read(authorized, id_is_empty) ==
    LET unwrap_or(r, d) == IF r.kind = "ok" THEN r.val ELSE d
    IN IF authorized # <<>> /\ unwrap_or(authorized[1], CanRead) # CanRead
       THEN "NotAuthorized"
       ELSE IF id_is_empty THEN "NotFound"
       ELSE "Ok"

\* check_indv_access_read: authorized is <<>> when az is None, else what
\* a.lock().await.authorize(uri, user_uri, Access::CanRead as u8, false)
\* returned; the ResultCode of the pair it returns
check_indv_access_read(authorized, id_is_empty) ==
    LET unwrap_or(r, d) == IF r.kind = "ok" THEN r.val ELSE d
    IN IF authorized # <<>> /\ unwrap_or(authorized[1], 0) # CanRead
       THEN "NotAuthorized"
       ELSE IF id_is_empty THEN "NotFound"
       ELSE "Ok"

LegacyContexts == {ctx \in Contexts : ctx.adapter = "legacy"}

AccessInit ==
    /\ \/ x_ctx = <<>>
       \/ x_ctx \in LegacyContexts
    /\ x_env \in ContextEnvs
    /\ x_calls = 0
    /\ x_faults = 0
    /\ x_last = <<>>
    /\ CodecOff /\ GetOff /\ EngineOff /\ CountersOff /\ StatOff /\ SnapOff
    /\ OpenOff /\ PureOff /\ MemOff /\ TxnOff /\ CallOff
    /\ ListenOff

AccessReturned(ctx, authorized, runs, id_is_empty, faults) ==
    /\ x_ctx' = ctx
    /\ x_last' = [authorized |-> authorized, runs |-> runs, id_is_empty |-> id_is_empty,
                  code |-> check_indv_access_read(authorized, id_is_empty)]
    /\ x_calls' = x_calls + 1
    /\ x_faults' = x_faults + faults
    /\ UNCHANGED <<x_env, codec_vars, get_vars, engine_vars, counter_vars, stat_vars,
                   snap_vars, open_vars, pure_vars, mem_vars, txn_vars, call_vars, listen_vars>>

\* check_indv_access_read with az = Some(a)
CheckAccessWithAz ==
    /\ x_ctx # <<>>
    /\ x_calls < MaxCalls
    /\ \E id_is_empty \in BOOLEAN :
        LET called(use_db) ==
                \E plan \in Plans(x_ctx, MaxFaults - x_faults) :
                    LET checked(out, r) ==
                            AccessReturned(r.ctx, <<r.res>>, out.runs, id_is_empty,
                                           PlannedFaults(plan))
                        authorized(out) == checked(out, authorize_with_stat(out, plan.flush))
                    IN authorized(legacy_authorize_and_trace(x_ctx, use_db, plan))
        IN called(UseDb(Counted(x_ctx), x_env, ResourceUri, UserUri, CanRead))

\* check_indv_access_read with az = None
CheckAccessWithoutAz ==
    /\ x_ctx = <<>>
    /\ x_calls < MaxCalls
    /\ \E id_is_empty \in BOOLEAN :
        AccessReturned(x_ctx, <<>>, <<>>, id_is_empty, 0)

AccessNext == CheckAccessWithAz \/ CheckAccessWithoutAz

SpecAccess == AccessInit /\ [][AccessNext]_vars

AccessChecked == x_last # <<>>

(***************************************************************************)
(* C34, as stated.  check_indv_access_read returns ResultCode::Ok for an   *)
(* individual only when authorize returned Ok with exactly the Read bit;   *)
(* when authorize returns an error (even after its retry) the outcome is   *)
(* NotAuthorized, never Ok.                                                *)
(***************************************************************************)
C34_OkOnlyWhenAuthorized ==
    AccessChecked =>
        /\ x_last.code = "Ok" =>
              /\ x_last.authorized # <<>>
              /\ x_last.authorized[1] = Ok(CanRead)
        /\ (x_last.authorized # <<>> /\ x_last.authorized[1].kind = "err") =>
              x_last.code = "NotAuthorized"

(***************************************************************************)
(* C34, amended.  When an authorization context is given,                  *)
(* check_indv_access_read returns ResultCode::Ok only when authorize       *)
(* returned Ok with exactly the Read bit, and NotAuthorized when authorize *)
(* returned an error (even after its retry) or another byte; when no       *)
(* context is given (az = None) authorize is not called and the outcome is *)
(* Ok for every individual with an id.                                     *)
(***************************************************************************)
C34_FailClosedWithAz ==
    AccessChecked =>
        /\ x_last.authorized # <<>> =>
              /\ x_last.code = "Ok" => x_last.authorized[1] = Ok(CanRead)
              /\ x_last.authorized[1] # Ok(CanRead) => x_last.code = "NotAuthorized"
        /\ x_last.authorized = <<>> =>
              x_last.code = (IF x_last.id_is_empty THEN "NotFound" ELSE "Ok")

\* authorize failed in both runs and the outcome was NotAuthorized
C34_Witness ==
    /\ AccessChecked
    /\ x_last.authorized # <<>>
    /\ x_last.authorized[1].kind = "err"
    /\ Len(x_last.runs) = 2
    /\ ~x_last.id_is_empty
    /\ x_last.code = "NotAuthorized"

\* authorize returned the Read bit and the outcome was Ok
C34_WitnessOk ==
    /\ AccessChecked
    /\ x_last.authorized = <<Ok(CanRead)>>
    /\ x_last.code = "Ok"

\* authorize returned no bit and the outcome was NotAuthorized
C34_WitnessDenied ==
    /\ AccessChecked
    /\ x_last.authorized = <<Ok(0)>>
    /\ ~x_last.id_is_empty
    /\ x_last.code = "NotAuthorized"

\* no context was given and the outcome was Ok
C34_WitnessNoAz ==
    /\ AccessChecked
    /\ x_last.authorized = <<>>
    /\ x_last.code = "Ok"

(***************************************************************************)
(* Construction of a context with a cache: open of the three adapters from *)
(* the opening of the cache environment on, then one get on the storage    *)
(* the context gives to the engine.  g_storage keeps what open was given:  *)
(* use_cache, the cache on disk, and what each attempt to open it gave.    *)
(***************************************************************************)
OpenResults == {"ok", "err"}

CacheOpenInit ==
    /\ g_pc = "new"
    /\ g_storage \in [adapter : Adapters, db : GetDbs, cache_db : {<<>>},
                      cache_txn : {<<>>}, stat_mode : {"NoStat", "Full"},
                      disk_cache : GetDbs, use_cache : {<<>>}, cache_open : {<<>>}]
    /\ g_call = <<>>
    /\ g_ret = <<>>
    /\ CodecOff /\ EngineOff /\ ContextOff /\ CountersOff /\ StatOff /\ SnapOff
    /\ OpenOff /\ PureOff /\ MemOff /\ TxnOff /\ CallOff
    /\ ListenOff

\* the context open returns, or the panic it ends in
CacheOpened(pc, use_cache, cache_open, with_cache) ==
    /\ g_pc' = pc
    /\ g_storage' = [g_storage EXCEPT
                        !.use_cache = <<use_cache>>,
                        !.cache_open = cache_open,
                        !.cache_db = IF with_cache THEN <<g_storage.disk_cache>> ELSE <<>>,
                        !.cache_txn = IF with_cache THEN <<"txn">> ELSE <<>>]
    /\ UNCHANGED <<g_call, g_ret, codec_vars, engine_vars, context_vars, counter_vars,
                   stat_vars, snap_vars, open_vars, pure_vars, mem_vars, txn_vars,
                   call_vars, listen_vars>>

\* open of LmdbAzContext (heed): when the cache environment does not open,
\* the Err arm opens it a second time and unwraps the result
OpenLmdbCache ==
    /\ g_pc = "new"
    /\ g_storage.adapter = "lmdb"
    /\ \E use_cache \in BOOLEAN, first \in OpenResults, second \in OpenResults :
        IF ~use_cache THEN first = "ok" /\ second = "ok"
                           /\ CacheOpened("ready", FALSE, <<>>, FALSE)
        ELSE IF first = "ok" THEN second = "ok"
                                  /\ CacheOpened("ready", TRUE, <<first>>, TRUE)
        ELSE IF second = "ok" THEN CacheOpened("ready", TRUE, <<first, second>>, TRUE)
        ELSE CacheOpened("panicked", TRUE, <<first, second>>, FALSE)

\* open of MdbxAzContext: `Err(e) => { warn!(..); None }`
OpenMdbxCache ==
    /\ g_pc = "new"
    /\ g_storage.adapter = "mdbx"
    /\ \E use_cache \in BOOLEAN, first \in OpenResults :
        IF ~use_cache THEN first = "ok" /\ CacheOpened("ready", FALSE, <<>>, FALSE)
        ELSE CacheOpened("ready", TRUE, <<first>>, first = "ok")

\* open of LmdbAzContext (lmdb_rs_m): `Err(e) => { warn!(..); None }`
OpenLegacyCache ==
    /\ g_pc = "new"
    /\ g_storage.adapter = "legacy"
    /\ \E use_cache \in BOOLEAN, first \in OpenResults :
        IF ~use_cache THEN first = "ok" /\ CacheOpened("ready", FALSE, <<>>, FALSE)
        ELSE CacheOpened("ready", TRUE, <<first>>, first = "ok")

CacheOpenNext ==
    \/ OpenLmdbCache
    \/ OpenMdbxCache
    \/ OpenLegacyCache
    \/ GetNext

SpecCacheOpen == CacheOpenInit /\ [][CacheOpenNext]_vars

\* open was called with use_cache = true and the cache environment did not
\* open
CacheOpenFailed ==
    /\ g_pc # "new"
    /\ g_storage.use_cache = <<TRUE>>
    /\ g_storage.cache_open[1] = "err"

ServedFromPrimary ==
    g_pc = "returned" => (g_ret.primary_read /\ g_ret.res = PrimaryLookup)

(***************************************************************************)
(* C36.  Constructing a context with use_cache=true when the cache         *)
(* environment cannot be opened completes without failing and yields a     *)
(* context that serves every get from the primary only; this holds for the *)
(* LMDB adapter and for the MDBX adapter alike.                            *)
(***************************************************************************)
C36_CacheOpenFailureFallsBack ==
    CacheOpenFailed =>
        /\ g_pc # "panicked"
        /\ g_storage.cache_db = <<>>
        /\ ServedFromPrimary

\* what holds: the MDBX adapter and the lmdb_rs_m adapter build a context
\* without a cache, and its gets read the primary
MdbxAndLegacyFallBack ==
    (CacheOpenFailed /\ g_storage.adapter \in {"mdbx", "legacy"}) =>
        /\ g_pc # "panicked"
        /\ g_storage.cache_db = <<>>
        /\ ServedFromPrimary

\* the heed adapter ended in the panic of unwrap
LmdbOpenPanicked ==
    /\ g_storage.adapter = "lmdb"
    /\ g_pc = "panicked"
    /\ g_storage.cache_open = <<"err", "err">>

\* the context of the MDBX adapter was built without its cache and a key
\* the cache on disk holds was read from the primary
MdbxFellBack ==
    /\ g_storage.adapter = "mdbx"
    /\ CacheOpenFailed
    /\ g_pc = "returned"
    /\ g_call.key \in DOMAIN g_storage.disk_cache
    /\ g_call.key \in DOMAIN g_storage.db
    /\ g_storage.db[g_call.key] # g_storage.disk_cache[g_call.key]
    /\ g_ret.res = OkSome(g_storage.db[g_call.key])

(***************************************************************************)
(* module/module_impl.rs: the loop of Module::listen_queue_comb, one       *)
(* action per way a pass of the loop ends.  The queue, the callbacks and   *)
(* the notify channel are inputs of each pass.                             *)
(***************************************************************************)
MaxPasses == 4
MaxBatch == 2

ListenOthers ==
    <<codec_vars, get_vars, engine_vars, context_vars, counter_vars, stat_vars, snap_vars,
      open_vars, pure_vars, mem_vars, txn_vars, call_vars>>

ListenInit ==
    /\ l_pc = "loop"
    /\ l_self \in [is_ready_notify_channel : {FALSE}, notify_channel_url_is_empty : BOOLEAN]
    /\ l_soc = <<>>
    /\ l_count = 0
    /\ l_last = <<>>
    /\ l_fails = 0
    /\ l_iter = 0
    /\ CodecOff /\ GetOff /\ EngineOff /\ ContextOff /\ CountersOff /\ StatOff
    /\ SnapOff /\ OpenOff /\ PureOff /\ MemOff /\ TxnOff /\ CallOff

\* Module::connect_to_notify_channel: [self, soc]; dial is what set_opt and
\* dial give, "ok", "fail" (timeout option or dial) or "subscribe"
connect_to_notify_channel(self, dial) ==
    IF ~self.is_ready_notify_channel /\ ~self.notify_channel_url_is_empty
    THEN IF dial = "fail" THEN [self |-> self, soc |-> <<>>]
         ELSE IF dial = "subscribe"
         THEN [self |-> [self EXCEPT !.is_ready_notify_channel = FALSE], soc |-> <<>>]
         ELSE [self |-> [self EXCEPT !.is_ready_notify_channel = TRUE], soc |-> <<"soc">>]
    ELSE [self |-> self, soc |-> <<>>]

\* `if soc.is_none() { soc = self.connect_to_notify_channel(); .. }`
Connected(dial) ==
    IF l_soc = <<>> THEN connect_to_notify_channel(l_self, dial)
    ELSE [self |-> l_self, soc |-> l_soc]

\* the Err arm of `s.recv()`: [self, count_timeout_error]
RecvFailed(self, count, size_batch) ==
    IF count > 0 /\ size_batch > 0
    THEN [self |-> [self EXCEPT !.is_ready_notify_channel = FALSE], count |-> count + 1]
    ELSE [self |-> self, count |-> count]

\* `if prepared_batch_size == size_batch { if let Some(s) = &soc { .. } }`
AfterRecv(self, soc, count, size_batch, prepared, recv) ==
    IF prepared = size_batch /\ soc # <<>>
    THEN IF recv = "err" THEN RecvFailed(self, count, size_batch)
         ELSE [self |-> self, count |-> 0]
    ELSE [self |-> self, count |-> count]

\* the failed receives with size_batch > 0 since the last success
FailsAfter(soc, size_batch, prepared, recv) ==
    IF prepared = size_batch /\ soc # <<>>
    THEN IF recv = "ok" THEN 0
         ELSE IF size_batch > 0 THEN l_fails + 1 ELSE l_fails
    ELSE l_fails

\* heartbeat returns PrepareError::Fatal: `break`
ListenHeartbeatFatal ==
    /\ l_pc = "loop"
    /\ l_pc' = "stopped"
    /\ UNCHANGED <<l_self, l_soc, l_count, l_last, l_fails, l_iter, ListenOthers>>

\* get_info_of_part fails: `continue`, after the connection was tried
ListenInfoError ==
    /\ l_pc = "loop"
    /\ l_iter < MaxPasses
    /\ \E dial \in {"ok", "fail", "subscribe"} :
        /\ l_self' = Connected(dial).self
        /\ l_soc' = Connected(dial).soc
    /\ l_iter' = l_iter + 1
    /\ UNCHANGED <<l_pc, l_count, l_last, l_fails, ListenOthers>>

\* prepare or after_batch returns PrepareError::Fatal: `return`
ListenFatal ==
    /\ l_pc = "loop"
    /\ l_iter < MaxPasses
    /\ \E dial \in {"ok", "fail", "subscribe"} :
        /\ l_self' = Connected(dial).self
        /\ l_soc' = Connected(dial).soc
    /\ l_pc' = "stopped"
    /\ l_iter' = l_iter + 1
    /\ UNCHANGED <<l_count, l_last, l_fails, ListenOthers>>

\* a pass that reaches the end of the loop body: the batch of size_batch
\* elements of which prepared were taken, then the receive on the channel
ListenPass ==
    /\ l_pc = "loop"
    /\ l_iter < MaxPasses
    /\ \E dial \in {"ok", "fail", "subscribe"}, size_batch \in 0..MaxBatch,
          prepared \in 0..MaxBatch, recv \in {"ok", "err"} :
        /\ prepared <= size_batch
        /\ LET received(c, r) ==
                /\ l_self' = r.self
                /\ l_soc' = c.soc
                /\ l_count' = r.count
                /\ l_fails' = FailsAfter(c.soc, size_batch, prepared, recv)
                /\ l_last' = [size_batch |-> size_batch, prepared |-> prepared,
                              recv |-> IF prepared = size_batch /\ c.soc # <<>>
                                       THEN recv ELSE "none"]
               connected(c) ==
                received(c, AfterRecv(c.self, c.soc, l_count, size_batch, prepared, recv))
           IN connected(Connected(dial))
    /\ l_iter' = l_iter + 1
    /\ UNCHANGED <<l_pc, ListenOthers>>

ListenNext ==
    \/ ListenHeartbeatFatal
    \/ ListenInfoError
    \/ ListenFatal
    \/ ListenPass

SpecListen == ListenInit /\ [][ListenNext]_vars

\* the last pass ended with a failed receive while the queue had elements
RecvFailedWithBatch ==
    /\ l_last # <<>>
    /\ l_last.recv = "err"
    /\ l_last.size_batch > 0

(***************************************************************************)
(* C40.  In the queue listener loop, repeated receive failures on the      *)
(* notify channel while the queue has pending elements (size_batch > 0)    *)
(* mark the notify channel as not ready (is_ready_notify_channel = false): *)
(* the failure counter count_timeout_error is positive after a failure,    *)
(* and is 0 after a successful receive.                                    *)
(***************************************************************************)
C40_RepeatedFailuresMarkNotReady ==
    /\ RecvFailedWithBatch => l_count > 0
    /\ (RecvFailedWithBatch /\ l_fails >= 2) => ~l_self.is_ready_notify_channel
    /\ (l_last # <<>> /\ l_last.recv = "ok") => l_count = 0

\* what the loop does: count_timeout_error is never incremented, and a
\* channel that was marked ready stays so
CountTimeoutErrorStaysZero ==
    /\ l_count = 0
    /\ l_soc # <<>> => l_self.is_ready_notify_channel

\* three receives in a row failed with elements in the queue, and the
\* channel is still marked ready
FailuresUnnoticed ==
    /\ RecvFailedWithBatch
    /\ l_fails = 3
    /\ l_count = 0
    /\ l_self.is_ready_notify_channel

====
